---- MODULE Spec2Model ----
(***************************************************************************)
(* Model of DataStoreManager (assets/js/datastore.js): the sql.js database *)
(* held in memory by one engine instance, the blob it keeps in             *)
(* localStorage under STORAGE_KEY, and the storage operations.             *)
(*                                                                         *)
(* JavaScript runs one task at a time, so a synchronous method is one      *)
(* action.  An async method is cut at its awaits: initialize() and         *)
(* importBackup() suspend while the sql.js runtime loads, after            *)
(* createTables()/runMigrations() and while crypto.subtle.digest runs;     *)
(* other calls may run at those points.                                    *)
(***************************************************************************)
EXTENDS Integers, Sequences, FiniteSets, TLC

\* ------------------------------------------------------------------ bounds
MaxFreight == 2    \* freight_details rows ever inserted into one database
MaxHistory == 1    \* document_history rows ever inserted into one database
MaxUsers   == 2    \* users rows ever inserted into one database
MaxProfile == 2    \* company_profiles rows ever inserted into one database
MaxField   == 1    \* custom_field_definitions rows ever inserted
MaxPersistRows == 2  \* rows ever inserted where every operation is exercised

UserIds   == {1, 2}
Origins   == {"Mumbai", "Delhi"}
DocTypes  == {"bilty"}
Usernames == {"admin", "bob"}
Passwords == {"admin123", "letmein"}

NullId   == 0
NullText == "<null>"

\* ------------------------------------------------------- schema of the db
STORAGE_KEY == "transport_invoice_db"

AllTables == {"users", "freight_details", "document_history",
              "company_profiles", "custom_field_definitions"}

LegacyTables == {"users", "freight_details", "document_history"}

AllIndexes == {"idx_freight_user_id", "idx_freight_created_at",
               "idx_freight_company_profile", "idx_document_freight_id",
               "idx_company_profiles_user_id", "idx_custom_fields_user_id"}

LegacyIndexes == {"idx_freight_user_id", "idx_freight_created_at",
                  "idx_document_freight_id"}

NewFreightCols == {"company_profile_id", "custom_fields"}

ZeroSeq == [t \in AllTables |-> 0]

\* new SQL.Database(): no tables, no rows
EmptyDb ==
  [isNull |-> FALSE, tables |-> {}, freightCols |-> {}, indexes |-> {},
   users |-> {}, freight |-> {}, history |-> {}, profiles |-> {},
   fields |-> {}, seq |-> ZeroSeq]

\* this.db = null
NullDb == [EmptyDb EXCEPT !.isNull = TRUE]

\* hashPassword: SHA-256 hex digest of the password (one digest per input)
hashPassword(p) ==
  CASE p = "admin123" -> "240be518fabd2724ddb6f04eeb1da596"
    [] p = "letmein"  -> "1c8bfe8f801d79745c4631d09fff36c8"
    [] OTHER          -> "e3b0c44298fc1c149afbf4c8996fb924"

Hashes == {hashPassword(p) : p \in Passwords}

\* A database written by the release that had no company profiles and no
\* custom fields: three tables, freight_details without the two new columns.
LegacyDb ==
  [EmptyDb EXCEPT
     !.tables  = LegacyTables,
     !.indexes = LegacyIndexes,
     !.users   = {[id |-> 1, username |-> "admin",
                   password_hash |-> hashPassword("admin123")]},
     !.freight = {[id |-> 1, user_id |-> 1, origin |-> "Mumbai",
                   company_profile_id |-> NullId, custom_fields |-> NullText]},
     !.seq     = [ZeroSeq EXCEPT !["users"] = 1, !["freight_details"] = 1]]

\* ------------------------------------------------------------ persistence
\* localStorage[STORAGE_KEY]: absent, or the JSON text of the byte array
\* db.export() returned.  The bytes are the SQLite file image: schema,
\* sqlite_sequence and every row.  "corrupt" is a value that JSON.parse or
\* new SQL.Database rejects.
NoBlob == [present |-> FALSE, corrupt |-> FALSE, image |-> NullDb]

CorruptBlob == [present |-> TRUE, corrupt |-> TRUE, image |-> NullDb]

\* JSON.stringify(Array.from(db.export()))
Serialize(d) == [present |-> TRUE, corrupt |-> FALSE, image |-> d]

\* new SQL.Database(new Uint8Array(JSON.parse(savedDb)))
Deserialize(b) == [b.image EXCEPT !.isNull = FALSE]

VARIABLES
  db,           \* this.db
  initialized,  \* this.initialized
  blob,         \* localStorage[STORAGE_KEY]
  initPc,       \* where the running initialize() call is suspended
  impPc,        \* where the running importBackup() call is suspended
  impData,      \* the snapshot the running importBackup() was given
  lastExport,   \* the snapshot the last exportBackup() returned
  lastOp,       \* the last call that returned, with what it returned
  session,      \* localStorage[SESSION_KEY] of AuthManager
  now,          \* the clock, Date.now()
  authPc,       \* where the running login() call is suspended
  authArgs,     \* what the running login() holds: its arguments, the hash
                \* and the verdict of verifyUser
  authOp,       \* the last AuthManager call that returned, with its result
  ui,           \* what the last submission of the freight form collected,
                \* how it validated and what became of it
  parked,       \* the DataStoreManager of the other tab: its fields while
                \* this tab runs
  ghost         \* history kept for the properties: saved, the freight
                \* records saved with success and not deleted by their
                \* owner since; initFailed, the last initialize() that
                \* resolved failed; impBlob, the blob when the
                \* importBackup() in flight was called; impKept, the
                \* last importBackup() that returned left the blob as it
                \* was when called; live, a login() has succeeded and
                \* logout() was not called since; loginToken / loginAt,
                \* the token that login returned and the time it
                \* stored the session

\* what no method of DataStoreManager touches
others == <<session, now, authPc, authArgs, authOp, ui, parked>>

vars == <<db, initialized, blob, initPc, impPc, impData, lastExport, lastOp,
          ghost, session, now, authPc, authArgs, authOp, ui, parked>>

\* -------------------------------------------------------- call results
ErrUninit == "Database not initialized"
ErrPersist == "Failed to persist data"
ErrEngine == "sql.js error"

\* The last thing a call did.  done: it returned (FALSE: it is suspended
\* on an await); ready: this.initialized when it was called; ok:
\* result.success (result.valid for verifyUser); threw: it threw or its
\* promise rejected; isNull: it returned null; rows: the rows a read
\* returned, in order; user / id: the owner id and row id given to a read or
\* to a freight update / delete that ran (user: the user the caller acts for
\* when a read takes no owner id), or the id a save returned; allOk: no call
\* has reported a failure so far.
Ret(op, user, id, ready, ok, threw, err, isNull, rows) ==
  [op |-> op, done |-> TRUE, user |-> user, id |-> id, ready |-> ready,
   ok |-> ok, threw |-> threw, err |-> err, isNull |-> isNull, rows |-> rows,
   allOk |-> lastOp.allOk /\ ok]

NoOp ==
  [op |-> "none", done |-> TRUE, user |-> NullId, id |-> NullId,
   ready |-> FALSE, ok |-> FALSE, threw |-> FALSE, err |-> "",
   isNull |-> FALSE, rows |-> <<>>, allOk |-> TRUE]

\* the call is suspended on an await
Awaiting(op) ==
  [NoOp EXCEPT !.op = op, !.done = FALSE, !.allOk = lastOp.allOk]

Success(op, user, id) ==
  Ret(op, user, id, TRUE, TRUE, FALSE, "", FALSE, <<>>)

Failure(op, user, id, ready, err) ==
  Ret(op, user, id, ready, FALSE, FALSE, err, FALSE, <<>>)

Thrown(op, user, id, ready, err) ==
  Ret(op, user, id, ready, FALSE, TRUE, err, FALSE, <<>>)

Rows(op, user, id, ready, rows) ==
  Ret(op, user, id, ready, TRUE, FALSE, "", FALSE, rows)

Null(op, user, id, ready) ==
  Ret(op, user, id, ready, TRUE, FALSE, "", TRUE, <<>>)

\* verifyUser's { valid: false, userId: null }: a verdict, not a failure
Invalid(ready) ==
  [Failure("verifyUser", NullId, NullId, ready, "")
     EXCEPT !.allOk = lastOp.allOk]

\* --------------------------------------------------------- SQL statements
\* db.prepare / db.run / db.exec throw on a null handle or a missing table
Usable(d, t) == ~d.isNull /\ t \in d.tables

\* rows of a result set ordered by id, highest first (ORDER BY id DESC)
RECURSIVE OrderByIdDesc(_)
OrderByIdDesc(rows) ==
  IF rows = {} THEN <<>>
  ELSE LET top == CHOOSE r \in rows : \A q \in rows : q.id <= r.id
       IN <<top>> \o OrderByIdDesc(rows \ {top})

\* rows of a result set in rowid order, the order SQLite yields rows whose
\* ORDER BY keys tie
RECURSIVE OrderByIdAsc(_)
OrderByIdAsc(rows) ==
  IF rows = {} THEN <<>>
  ELSE LET low == CHOOSE r \in rows : \A q \in rows : r.id <= q.id
       IN <<low>> \o OrderByIdAsc(rows \ {low})

\* INSERT INTO freight_details (user_id, origin, ...) VALUES (...): the two
\* columns the statement does not name get their default, NULL
InsertFreight(d, freightData) ==
  LET id == d.seq["freight_details"] + 1
      row == [id |-> id, user_id |-> freightData.userId,
              origin |-> freightData.origin,
              company_profile_id |-> NullId, custom_fields |-> NullText]
  IN [d EXCEPT !.freight = @ \cup {row}, !.seq["freight_details"] = id]

\* SELECT * FROM freight_details WHERE id = ?
SelectFreightById(d, id) == {r \in d.freight : r.id = id}

\* (mutant) the SELECT without its WHERE user_id = ?
SelectFreightOfAnyUser(d, userId) == OrderByIdDesc(d.freight)

\* SELECT * FROM freight_details WHERE user_id = ? ORDER BY id DESC
SelectFreightByUser(d, userId) ==
  OrderByIdDesc({r \in d.freight : r.user_id = userId})

\* the object getFreightDetails / getUserFreightRecords build from a row:
\* company_profile_id and custom_fields are not copied
FreightObject(row) ==
  [id |-> row.id, userId |-> row.user_id, origin |-> row.origin]

\* (mutant) the UPDATE with WHERE id = ? alone
UpdateFreightAnyOwner(d, id, freightData) ==
  [d EXCEPT !.freight =
     {IF r.id = id THEN [r EXCEPT !.origin = freightData.origin] ELSE r :
        r \in @}]

\* UPDATE freight_details SET origin = ?, ... WHERE id = ? AND user_id = ?
UpdateFreight(d, id, freightData) ==
  [d EXCEPT !.freight =
     {IF r.id = id /\ r.user_id = freightData.userId
        THEN [r EXCEPT !.origin = freightData.origin]
        ELSE r : r \in @}]

\* (mutant) a delete that does not touch document_history
DeleteNoHistory(d, id) == d

\* DELETE FROM document_history WHERE freight_id = ?
DeleteHistoryOf(d, id) ==
  [d EXCEPT !.history = {h \in @ : h.freight_id # id}]

\* DELETE FROM freight_details WHERE id = ? AND user_id = ?
DeleteFreight(d, id, userId) ==
  [d EXCEPT !.freight = {r \in @ : ~(r.id = id /\ r.user_id = userId)}]

\* INSERT INTO document_history (freight_id, document_type) VALUES (?, ?);
\* sql.js leaves PRAGMA foreign_keys off, so freight_id is not checked
InsertHistory(d, freightId, documentType) ==
  LET id == d.seq["document_history"] + 1
  IN [d EXCEPT !.history = @ \cup {[id |-> id, freight_id |-> freightId,
                                     document_type |-> documentType]},
               !.seq["document_history"] = id]

\* SELECT * FROM document_history WHERE freight_id = ? ORDER BY generated_at
\* DESC (generated_at grows with id)
SelectHistoryOf(d, freightId) ==
  OrderByIdDesc({h \in d.history : h.freight_id = freightId})

HistoryObject(row) ==
  [id |-> row.id, freightId |-> row.freight_id,
   documentType |-> row.document_type]

\* (mutant) a write that keeps the freight rows another instance stored
persistMerged(d, b, writeOk) ==
  IF writeOk /\ ~d.isNull
    THEN IF b.present /\ ~b.corrupt
           THEN Serialize([d EXCEPT !.freight = @ \cup b.image.freight])
           ELSE Serialize(d)
    ELSE b

\* (mutant) a persist step that returns without writing
persistSkipped(d, b, writeOk) == b

\* (mutant) a persist step whose refused write drops the stored value
persistTorn(d, b, writeOk) ==
  IF d.isNull THEN b ELSE IF writeOk THEN Serialize(d) ELSE NoBlob

\* localStorage.setItem(STORAGE_KEY, JSON.stringify(Array.from(db.export())))
\* writeOk = FALSE: setItem throws (quota exceeded), the stored value stays
persistToLocalStorage(d, b, writeOk) ==
  IF writeOk /\ ~d.isNull THEN Serialize(d) ELSE b

Map(f(_), s) == [i \in 1 .. Len(s) |-> f(s[i])]

\* ------------------------------------------------------------ operations
\* (mutant) saveFreightDetails without its initialized check
saveFreightUnguarded(freightData, writeOk) ==
  /\ IF ~Usable(db, "freight_details")
        THEN /\ lastOp' = Failure("saveFreightDetails", NullId, NullId,
                                   initialized, ErrEngine)
             /\ UNCHANGED <<db, blob>>
      ELSE LET d1 == InsertFreight(db, freightData)
           IN /\ db' = d1
              /\ blob' = persistToLocalStorage(d1, blob, writeOk)
              /\ lastOp' = Ret("saveFreightDetails", NullId,
                               d1.seq["freight_details"], initialized, writeOk,
                               FALSE, "", FALSE, <<>>)
  /\ UNCHANGED others
  /\ UNCHANGED <<initialized, initPc, impPc, impData, lastExport, ghost>>

\* The body of saveFreightDetails(freightData), datastore.js 304-346, on
\* the fields of DataStoreManager
SaveFreightDetailsBody(freightData, writeOk) ==
  /\ initialized => db.seq["freight_details"] < MaxFreight
  /\ IF ~initialized
        THEN /\ lastOp' = Failure("saveFreightDetails", NullId, NullId, FALSE, ErrUninit)
             /\ UNCHANGED <<db, blob, ghost>>
      ELSE IF ~Usable(db, "freight_details")
        THEN /\ lastOp' = Failure("saveFreightDetails", NullId, NullId, TRUE, ErrEngine)
             /\ UNCHANGED <<db, blob, ghost>>
      ELSE LET d1 == InsertFreight(db, freightData)
               id == d1.seq["freight_details"]
           IN /\ db' = d1
              /\ blob' = persistToLocalStorage(d1, blob, writeOk)
              /\ lastOp' = IF writeOk
                             THEN Success("saveFreightDetails", NullId, id)
                             ELSE Failure("saveFreightDetails", NullId, NullId, TRUE, ErrPersist)
              /\ ghost' = IF writeOk
                            THEN [ghost EXCEPT !.saved = @ \cup
                                    {[id |-> id, owner |-> freightData.userId]}]
                            ELSE ghost
  /\ UNCHANGED <<initialized, initPc, impPc, impData, lastExport>>

\* saveFreightDetails(freightData), datastore.js 304-346
saveFreightDetails(freightData, writeOk) ==
  /\ SaveFreightDetailsBody(freightData, writeOk)
  /\ UNCHANGED others

\* The body of getFreightDetails (datastore.js 352-390) run on engine
\* state (d, init); caller: the user the calling page acts for (the method
\* itself takes no owner id)
GetFreightOutcome(d, init, id, caller) ==
  IF ~init THEN Null("getFreightDetails", caller, id, FALSE)
  ELSE IF ~Usable(d, "freight_details")
    THEN Null("getFreightDetails", caller, id, TRUE)
  ELSE LET found == SelectFreightById(d, id)
       IN IF found = {} THEN Null("getFreightDetails", caller, id, TRUE)
          ELSE Rows("getFreightDetails", caller, id, TRUE,
                    <<FreightObject(CHOOSE r \in found : TRUE)>>)

\* getFreightDetails(id), datastore.js 352-390
getFreightDetails(id, caller) ==
  /\ lastOp' = GetFreightOutcome(db, initialized, id, caller)
  /\ UNCHANGED others
  /\ UNCHANGED <<db, initialized, blob, initPc, impPc, impData, lastExport,
                 ghost>>

\* getUserFreightRecords(userId), datastore.js 396-435
getUserFreightRecords(userId) ==
  /\ lastOp' =
       IF ~initialized
         THEN Rows("getUserFreightRecords", userId, NullId, FALSE, <<>>)
       ELSE IF ~Usable(db, "freight_details")
         THEN Rows("getUserFreightRecords", userId, NullId, TRUE, <<>>)
       ELSE Rows("getUserFreightRecords", userId, NullId, TRUE,
                 Map(FreightObject, SelectFreightByUser(db, userId)))
  /\ UNCHANGED others
  /\ UNCHANGED <<db, initialized, blob, initPc, impPc, impData, lastExport,
                 ghost>>

\* recordDocumentGeneration(freightId, documentType), datastore.js 504-525
recordDocumentGeneration(freightId, documentType, writeOk) ==
  /\ initialized => db.seq["document_history"] < MaxHistory
  /\ IF ~initialized
        THEN /\ lastOp' = Failure("recordDocumentGeneration", NullId, NullId, FALSE, ErrUninit)
             /\ UNCHANGED <<db, blob>>
      ELSE IF ~Usable(db, "document_history")
        THEN /\ lastOp' = Failure("recordDocumentGeneration", NullId, NullId, TRUE, ErrEngine)
             /\ UNCHANGED <<db, blob>>
      ELSE LET d1 == InsertHistory(db, freightId, documentType)
           IN /\ db' = d1
              /\ blob' = persistToLocalStorage(d1, blob, writeOk)
              /\ lastOp' = IF writeOk
                             THEN Success("recordDocumentGeneration", NullId, NullId)
                             ELSE Failure("recordDocumentGeneration", NullId, NullId, TRUE, ErrPersist)
  /\ UNCHANGED others
  /\ UNCHANGED <<initialized, initPc, impPc, impData, lastExport, ghost>>

\* getDocumentHistory(freightId), datastore.js 530-561
getDocumentHistory(freightId, caller) ==
  /\ lastOp' =
       IF ~initialized
         THEN Rows("getDocumentHistory", caller, freightId, FALSE, <<>>)
       ELSE IF ~Usable(db, "document_history")
         THEN Rows("getDocumentHistory", caller, freightId, TRUE, <<>>)
       ELSE Rows("getDocumentHistory", caller, freightId, TRUE,
                 Map(HistoryObject, SelectHistoryOf(db, freightId)))
  /\ UNCHANGED others
  /\ UNCHANGED <<db, initialized, blob, initPc, impPc, impData, lastExport,
                 ghost>>

\* updateFreightDetails(id, freightData), datastore.js 567-612
updateFreightDetails(id, freightData, writeOk) ==
  /\ IF ~initialized
        THEN /\ lastOp' = Failure("updateFreightDetails", NullId, NullId, FALSE, ErrUninit)
             /\ UNCHANGED <<db, blob>>
      ELSE IF ~Usable(db, "freight_details")
        THEN /\ lastOp' = Failure("updateFreightDetails", NullId, NullId, TRUE, ErrEngine)
             /\ UNCHANGED <<db, blob>>
      ELSE LET d1 == UpdateFreight(db, id, freightData)
           IN /\ db' = d1
              /\ blob' = persistToLocalStorage(d1, blob, writeOk)
              /\ lastOp' = IF writeOk
                             THEN Success("updateFreightDetails", freightData.userId, id)
                             ELSE Failure("updateFreightDetails", freightData.userId, id, TRUE, ErrPersist)
  /\ UNCHANGED others
  /\ UNCHANGED <<initialized, initPc, impPc, impData, lastExport, ghost>>

\* deleteFreightDetails(id, userId), datastore.js 618-647
deleteFreightDetails(id, userId, writeOk) ==
  /\ IF ~initialized
        THEN /\ lastOp' = Failure("deleteFreightDetails", NullId, NullId, FALSE, ErrUninit)
             /\ UNCHANGED <<db, blob, ghost>>
      ELSE IF ~(Usable(db, "document_history") /\
                Usable(db, "freight_details"))
        THEN /\ lastOp' = Failure("deleteFreightDetails", NullId, NullId, TRUE, ErrEngine)
             /\ UNCHANGED <<db, blob, ghost>>
      ELSE LET d1 == DeleteFreight(DeleteHistoryOf(db, id), id, userId)
           IN /\ db' = d1
              /\ blob' = persistToLocalStorage(d1, blob, writeOk)
              /\ lastOp' = IF writeOk
                             THEN Success("deleteFreightDetails", userId, id)
                             ELSE Failure("deleteFreightDetails", userId, id, TRUE, ErrPersist)
              /\ ghost' = [ghost EXCEPT !.saved =
                             @ \ {[id |-> id, owner |-> userId]}]
  /\ UNCHANGED others
  /\ UNCHANGED <<initialized, initPc, impPc, impData, lastExport>>

\* (mutant) a users table whose username column is not UNIQUE
UsernameNeverTaken(d, username) == FALSE

\* INSERT INTO users (username, password_hash) VALUES (?, ?); username is
\* UNIQUE, so the statement throws when the name is taken
UsernameTaken(d, username) == \E u \in d.users : u.username = username

InsertUser(d, username, passwordHash) ==
  LET id == d.seq["users"] + 1
  IN [d EXCEPT !.users = @ \cup {[id |-> id, username |-> username,
                                   password_hash |-> passwordHash]},
               !.seq["users"] = id]

ErrDuplicate == "Username already exists"

\* The body of saveUser (datastore.js 440-467) run on engine state
\* (d, init, b): the database and blob it leaves and what it returns.
SaveUserOutcome(d, init, b, username, passwordHash, writeOk) ==
  IF ~init
    THEN [db |-> d, blob |-> b,
          ret |-> Thrown("saveUser", NullId, NullId, FALSE, ErrUninit)]
  ELSE IF ~Usable(d, "users")
    THEN [db |-> d, blob |-> b,
          ret |-> Thrown("saveUser", NullId, NullId, TRUE, ErrEngine)]
  ELSE IF UsernameTaken(d, username)
    THEN [db |-> d, blob |-> b,
          ret |-> Thrown("saveUser", NullId, NullId, TRUE, ErrDuplicate)]
  ELSE LET d1 == InsertUser(d, username, passwordHash)
       IN [db |-> d1, blob |-> persistToLocalStorage(d1, b, writeOk),
           ret |-> IF writeOk
                     THEN Success("saveUser", NullId, d1.seq["users"])
                     ELSE Thrown("saveUser", NullId, NullId, TRUE,
                                 ErrPersist)]

\* saveUser(username, passwordHash), datastore.js 440-467
saveUser(username, passwordHash, writeOk) ==
  /\ (initialized /\ Usable(db, "users") /\ ~UsernameTaken(db, username))
       => db.seq["users"] < MaxUsers
  /\ LET out == SaveUserOutcome(db, initialized, blob, username,
                                passwordHash, writeOk)
     IN /\ db' = out.db
        /\ blob' = out.blob
        /\ lastOp' = out.ret
  /\ UNCHANGED others
  /\ UNCHANGED <<initialized, initPc, impPc, impData, lastExport, ghost>>

\* SELECT id, password_hash FROM users WHERE username = ?
SelectUserByName(d, username) == {u \in d.users : u.username = username}

\* (mutant) verifyUser that does not compare the hash
VerifyUserByNameOnly(d, init, username, passwordHash) ==
  IF ~init \/ ~Usable(d, "users") THEN Invalid(init)
  ELSE LET found == {u \in d.users : u.username = username}
       IN IF found = {} THEN Invalid(TRUE)
          ELSE Success("verifyUser", NullId, (CHOOSE u \in found : TRUE).id)

\* The body of verifyUser (datastore.js 473-499) run on engine state
\* (d, init): ok is result.valid, id is result.userId (NullId for null)
VerifyUserOutcome(d, init, username, passwordHash) ==
  IF ~init \/ ~Usable(d, "users") THEN Invalid(init)
  ELSE LET found == SelectUserByName(d, username)
       IN IF found = {} THEN Invalid(TRUE)
          ELSE LET row == CHOOSE u \in found : TRUE
               IN IF row.password_hash = passwordHash
                    THEN Success("verifyUser", NullId, row.id)
                    ELSE Invalid(TRUE)

\* verifyUser(username, passwordHash), datastore.js 473-499
verifyUser(username, passwordHash) ==
  /\ lastOp' = VerifyUserOutcome(db, initialized, username, passwordHash)
  /\ UNCHANGED others
  /\ UNCHANGED <<db, initialized, blob, initPc, impPc, impData, lastExport,
                 ghost>>

\* clearAllData(), datastore.js 652-662
clearAllData ==
  /\ blob' = NoBlob
  /\ db' = NullDb
  /\ initialized' = FALSE
  /\ lastOp' = Ret("clearAllData", NullId, NullId, initialized, TRUE, FALSE,
                   "", FALSE, <<>>)
  /\ ghost' = [ghost EXCEPT !.saved = {}]
  /\ UNCHANGED others
  /\ UNCHANGED <<initPc, impPc, impData, lastExport>>

\* ------------------------------------------------------ company profiles
ProfileNames == {"Acme"}

\* INSERT INTO company_profiles (user_id, name, ..., is_default)
InsertProfile(d, profileData) ==
  LET id == d.seq["company_profiles"] + 1
  IN [d EXCEPT !.profiles = @ \cup
                 {[id |-> id, user_id |-> profileData.userId,
                   name |-> profileData.name,
                   is_default |-> IF profileData.isDefault THEN 1 ELSE 0]},
               !.seq["company_profiles"] = id]

\* UPDATE company_profiles SET name = ?, ..., is_default = ?
\* WHERE id = ? AND user_id = ?
UpdateProfile(d, id, profileData) ==
  [d EXCEPT !.profiles =
     {IF p.id = id /\ p.user_id = profileData.userId
        THEN [p EXCEPT !.name = profileData.name,
                       !.is_default = IF profileData.isDefault THEN 1 ELSE 0]
        ELSE p : p \in @}]

\* unsetOtherDefaults(userId, exceptId), datastore.js 764-775
unsetOtherDefaults(d, userId, exceptId) ==
  [d EXCEPT !.profiles =
     {IF p.user_id = userId /\ p.id # exceptId
        THEN [p EXCEPT !.is_default = 0]
        ELSE p : p \in @}]

\* DELETE FROM company_profiles WHERE id = ? AND user_id = ?
DeleteProfile(d, id, userId) ==
  [d EXCEPT !.profiles = {p \in @ : ~(p.id = id /\ p.user_id = userId)}]

\* saveCompanyProfile(profileData), datastore.js 669-713
saveCompanyProfile(profileData, writeOk) ==
  /\ initialized => db.seq["company_profiles"] < MaxProfile
  /\ IF ~initialized
        THEN /\ lastOp' = Failure("saveCompanyProfile", NullId, NullId, FALSE, ErrUninit)
             /\ UNCHANGED <<db, blob>>
      ELSE IF ~Usable(db, "company_profiles")
        THEN /\ lastOp' = Failure("saveCompanyProfile", NullId, NullId, TRUE, ErrEngine)
             /\ UNCHANGED <<db, blob>>
      ELSE LET d1 == InsertProfile(db, profileData)
               id == d1.seq["company_profiles"]
               d2 == IF profileData.isDefault
                       THEN unsetOtherDefaults(d1, profileData.userId, id)
                       ELSE d1
           IN /\ db' = d2
              /\ blob' = persistToLocalStorage(d2, blob, writeOk)
              /\ lastOp' = IF writeOk
                             THEN Success("saveCompanyProfile", NullId, id)
                             ELSE Failure("saveCompanyProfile", NullId, NullId, TRUE, ErrPersist)
  /\ UNCHANGED others
  /\ UNCHANGED <<initialized, initPc, impPc, impData, lastExport, ghost>>

\* updateCompanyProfile(id, profileData), datastore.js 718-759
updateCompanyProfile(id, profileData, writeOk) ==
  /\ IF ~initialized
        THEN /\ lastOp' = Failure("updateCompanyProfile", NullId, NullId, FALSE, ErrUninit)
             /\ UNCHANGED <<db, blob>>
      ELSE IF ~Usable(db, "company_profiles")
        THEN /\ lastOp' = Failure("updateCompanyProfile", NullId, NullId, TRUE, ErrEngine)
             /\ UNCHANGED <<db, blob>>
      ELSE LET d1 == UpdateProfile(db, id, profileData)
               d2 == IF profileData.isDefault
                       THEN unsetOtherDefaults(d1, profileData.userId, id)
                       ELSE d1
           IN /\ db' = d2
              /\ blob' = persistToLocalStorage(d2, blob, writeOk)
              /\ lastOp' = IF writeOk
                             THEN Success("updateCompanyProfile", NullId, NullId)
                             ELSE Failure("updateCompanyProfile", NullId, NullId, TRUE, ErrPersist)
  /\ UNCHANGED others
  /\ UNCHANGED <<initialized, initPc, impPc, impData, lastExport, ghost>>

\* deleteCompanyProfile(id, userId), datastore.js 872-890
deleteCompanyProfile(id, userId, writeOk) ==
  /\ IF ~initialized
        THEN /\ lastOp' = Failure("deleteCompanyProfile", NullId, NullId, FALSE, ErrUninit)
             /\ UNCHANGED <<db, blob>>
      ELSE IF ~Usable(db, "company_profiles")
        THEN /\ lastOp' = Failure("deleteCompanyProfile", NullId, NullId, TRUE, ErrEngine)
             /\ UNCHANGED <<db, blob>>
      ELSE LET d1 == DeleteProfile(db, id, userId)
           IN /\ db' = d1
              /\ blob' = persistToLocalStorage(d1, blob, writeOk)
              /\ lastOp' = IF writeOk
                             THEN Success("deleteCompanyProfile", NullId, NullId)
                             ELSE Failure("deleteCompanyProfile", NullId, NullId, TRUE, ErrPersist)
  /\ UNCHANGED others
  /\ UNCHANGED <<initialized, initPc, impPc, impData, lastExport, ghost>>

\* the object getUserCompanyProfiles builds from a row
ProfileObject(row) ==
  [id |-> row.id, userId |-> row.user_id, name |-> row.name,
   isDefault |-> (row.is_default = 1)]

\* SELECT * FROM company_profiles WHERE user_id = ?
\* ORDER BY is_default DESC, name ASC (rows that tie come in rowid order)
RECURSIVE OrderProfiles(_)
OrderProfiles(rows) ==
  IF rows = {} THEN <<>>
  ELSE LET first == CHOOSE r \in rows : \A q \in rows :
                      \/ r.is_default > q.is_default
                      \/ r.is_default = q.is_default /\ r.id <= q.id
       IN <<first>> \o OrderProfiles(rows \ {first})

\* getUserCompanyProfiles(userId), datastore.js 780-821
getUserCompanyProfiles(userId) ==
  /\ lastOp' =
       IF ~initialized
         THEN Rows("getUserCompanyProfiles", userId, NullId, FALSE, <<>>)
       ELSE IF ~Usable(db, "company_profiles")
         THEN Rows("getUserCompanyProfiles", userId, NullId, TRUE, <<>>)
       ELSE Rows("getUserCompanyProfiles", userId, NullId, TRUE,
                 Map(ProfileObject,
                     OrderProfiles({p \in db.profiles : p.user_id = userId})))
  /\ UNCHANGED others
  /\ UNCHANGED <<db, initialized, blob, initPc, impPc, impData, lastExport,
                 ghost>>

\* getDefaultCompanyProfile(userId), datastore.js 826-867:
\* SELECT * FROM company_profiles WHERE user_id = ? AND is_default = 1 LIMIT 1
getDefaultCompanyProfile(userId) ==
  /\ lastOp' =
       IF ~initialized
         THEN Null("getDefaultCompanyProfile", userId, NullId, FALSE)
       ELSE IF ~Usable(db, "company_profiles")
         THEN Null("getDefaultCompanyProfile", userId, NullId, TRUE)
       ELSE LET found == {q \in db.profiles :
                            q.user_id = userId /\ q.is_default = 1}
            IN IF found = {}
                 THEN Null("getDefaultCompanyProfile", userId, NullId, TRUE)
               ELSE Rows("getDefaultCompanyProfile", userId, NullId, TRUE,
                         <<ProfileObject(CHOOSE q \in found :
                                           \A o \in found : q.id <= o.id)>>)
  /\ UNCHANGED others
  /\ UNCHANGED <<db, initialized, blob, initPc, impPc, impData, lastExport,
                 ghost>>

\* --------------------------------------------------------- custom fields
FieldNames == {"vehicle_no"}

\* INSERT INTO custom_field_definitions (user_id, field_name, ..., is_active)
InsertField(d, fieldData) ==
  LET id == d.seq["custom_field_definitions"] + 1
  IN [d EXCEPT !.fields = @ \cup
                 {[id |-> id, user_id |-> fieldData.userId,
                   field_name |-> fieldData.fieldName,
                   is_active |-> IF fieldData.isActive THEN 1 ELSE 0]},
               !.seq["custom_field_definitions"] = id]

\* (mutant) the definition removed with DELETE
DeleteFieldRow(d, id, userId) ==
  [d EXCEPT !.fields = {f \in @ : ~(f.id = id /\ f.user_id = userId)}]

\* UPDATE custom_field_definitions SET is_active = 0
\* WHERE id = ? AND user_id = ?
DeactivateField(d, id, userId) ==
  [d EXCEPT !.fields =
     {IF f.id = id /\ f.user_id = userId
        THEN [f EXCEPT !.is_active = 0] ELSE f : f \in @}]

\* saveCustomField(fieldData), datastore.js 897-932
saveCustomField(fieldData, writeOk) ==
  /\ initialized => db.seq["custom_field_definitions"] < MaxField
  /\ IF ~initialized
        THEN /\ lastOp' = Failure("saveCustomField", NullId, NullId, FALSE, ErrUninit)
             /\ UNCHANGED <<db, blob>>
      ELSE IF ~Usable(db, "custom_field_definitions")
        THEN /\ lastOp' = Failure("saveCustomField", NullId, NullId, TRUE, ErrEngine)
             /\ UNCHANGED <<db, blob>>
      ELSE LET d1 == InsertField(db, fieldData)
           IN /\ db' = d1
              /\ blob' = persistToLocalStorage(d1, blob, writeOk)
              /\ lastOp' = IF writeOk
                             THEN Success("saveCustomField", NullId, d1.seq["custom_field_definitions"])
                             ELSE Failure("saveCustomField", NullId, NullId, TRUE, ErrPersist)
  /\ UNCHANGED others
  /\ UNCHANGED <<initialized, initPc, impPc, impData, lastExport, ghost>>

\* deleteCustomField(id, userId), datastore.js 979-998
deleteCustomField(id, userId, writeOk) ==
  /\ IF ~initialized
        THEN /\ lastOp' = Failure("deleteCustomField", NullId, NullId, FALSE, ErrUninit)
             /\ UNCHANGED <<db, blob>>
      ELSE IF ~Usable(db, "custom_field_definitions")
        THEN /\ lastOp' = Failure("deleteCustomField", NullId, NullId, TRUE, ErrEngine)
             /\ UNCHANGED <<db, blob>>
      ELSE LET d1 == DeactivateField(db, id, userId)
           IN /\ db' = d1
              /\ blob' = persistToLocalStorage(d1, blob, writeOk)
              /\ lastOp' = IF writeOk
                             THEN Success("deleteCustomField", NullId, NullId)
                             ELSE Failure("deleteCustomField", NullId, NullId, TRUE, ErrPersist)
  /\ UNCHANGED others
  /\ UNCHANGED <<initialized, initPc, impPc, impData, lastExport, ghost>>

FieldObject(row) ==
  [id |-> row.id, userId |-> row.user_id, fieldName |-> row.field_name,
   isActive |-> (row.is_active = 1)]

\* The body of getUserCustomFields (datastore.js 937-974) run on engine
\* state (d, init)
GetUserCustomFieldsOutcome(d, init, userId) ==
  IF ~init
    THEN Rows("getUserCustomFields", userId, NullId, FALSE, <<>>)
  ELSE IF ~Usable(d, "custom_field_definitions")
    THEN Rows("getUserCustomFields", userId, NullId, TRUE, <<>>)
  ELSE Rows("getUserCustomFields", userId, NullId, TRUE,
            Map(FieldObject,
                OrderByIdAsc({f \in d.fields :
                                f.user_id = userId /\ f.is_active = 1})))

\* getUserCustomFields(userId), datastore.js 937-974
getUserCustomFields(userId) ==
  /\ lastOp' = GetUserCustomFieldsOutcome(db, initialized, userId)
  /\ UNCHANGED others
  /\ UNCHANGED <<db, initialized, blob, initPc, impPc, impData, lastExport,
                 ghost>>

\* ------------------------------------------------- schema and initialize
\* (mutant) createTables that creates the three tables of the earlier
\* release only
createLegacyTables(d) ==
  [d EXCEPT !.tables = LegacyTables, !.indexes = LegacyIndexes]

\* createTables(), datastore.js 160-253, up to its persist: CREATE TABLE /
\* INDEX IF NOT EXISTS for the five tables and six indexes
createTables(d) ==
  [d EXCEPT !.tables = AllTables,
            !.freightCols = IF "freight_details" \in d.tables
                              THEN @ ELSE NewFreightCols,
            !.indexes = AllIndexes]

\* tableExists(tableName), datastore.js 133-140
tableExists(d, tableName) == tableName \in d.tables

\* (mutant) columnExists that finds no column
columnNeverFound(d, columnName) == FALSE

\* columnExists('freight_details', columnName), datastore.js 145-155
columnExists(d, columnName) ==
  "freight_details" \in d.tables /\ columnName \in d.freightCols

\* the four steps of runMigrations(), datastore.js 58-120
MigrateCompanyProfiles(d) ==
  IF tableExists(d, "company_profiles") THEN d
  ELSE [d EXCEPT !.tables = @ \cup {"company_profiles"},
                 !.indexes = @ \cup {"idx_company_profiles_user_id"}]

MigrateCustomFieldDefinitions(d) ==
  IF tableExists(d, "custom_field_definitions") THEN d
  ELSE [d EXCEPT !.tables = @ \cup {"custom_field_definitions"},
                 !.indexes = @ \cup {"idx_custom_fields_user_id"}]

\* ALTER TABLE freight_details ADD COLUMN throws when the table is missing
\* and when the table has the column already (duplicate column name)
AlterThrows(d, columnName) ==
  ~tableExists(d, "freight_details") \/ columnName \in d.freightCols

\* (mutant) the column added without the index on it
MigrateCompanyProfileIdNoIndex(d) ==
  IF columnExists(d, "company_profile_id") THEN d
  ELSE [d EXCEPT !.freightCols = @ \cup {"company_profile_id"}]

MigrateCompanyProfileId(d) ==
  IF columnExists(d, "company_profile_id") THEN d
  ELSE [d EXCEPT !.freightCols = @ \cup {"company_profile_id"},
                 !.indexes = @ \cup {"idx_freight_company_profile"}]

\* (mutant) the column added by rebuilding freight_details without its rows
MigrateByRebuild(d) ==
  IF columnExists(d, "custom_fields") THEN d
  ELSE [d EXCEPT !.freightCols = @ \cup {"custom_fields"}, !.freight = {}]

MigrateCustomFields(d) ==
  IF columnExists(d, "custom_fields") THEN d
  ELSE [d EXCEPT !.freightCols = @ \cup {"custom_fields"}]

\* runMigrations(), datastore.js 56-128, up to its persist: the database it
\* leaves and whether a step threw
runMigrations(d) ==
  LET d2 == MigrateCustomFieldDefinitions(MigrateCompanyProfiles(d))
      d3 == MigrateCompanyProfileId(d2)
  IN IF ~columnExists(d2, "company_profile_id")
          /\ AlterThrows(d2, "company_profile_id")
       THEN [db |-> d2, threw |-> TRUE]
     ELSE IF ~columnExists(d3, "custom_fields")
              /\ AlterThrows(d3, "custom_fields")
       THEN [db |-> d3, threw |-> TRUE]
     ELSE [db |-> MigrateCustomFields(d3), threw |-> FALSE]

\* runMigrations() called on its own, datastore.js 56-128: it has no await,
\* so it runs in one piece; a null handle, a failing ALTER or a refused
\* write makes it reject
RunMigrations(writeOk) ==
  /\ IF db.isNull
        THEN /\ lastOp' = Thrown("runMigrations", NullId, NullId, initialized,
                                  ErrEngine)
             /\ UNCHANGED <<db, blob>>
      ELSE LET m == runMigrations(db)
           IN /\ db' = m.db
              /\ blob' = IF m.threw THEN blob
                          ELSE persistToLocalStorage(m.db, blob, writeOk)
              /\ lastOp' = IF m.threw
                              THEN Thrown("runMigrations", NullId, NullId,
                                          initialized, ErrEngine)
                            ELSE IF ~writeOk
                              THEN Thrown("runMigrations", NullId, NullId,
                                          initialized, ErrPersist)
                            ELSE Success("runMigrations", NullId, NullId)
  /\ UNCHANGED others
  /\ UNCHANGED <<initialized, initPc, impPc, impData, lastExport, ghost>>

ErrInit == "Failed to initialize database"

InitFailed == Failure("initialize", NullId, NullId, FALSE, ErrInit)

InitSucceeded == Success("initialize", NullId, NullId)

\* initialize() is called, datastore.js 17-22: it suspends on initSqlJs
InitializeCall ==
  /\ initPc = "idle"
  /\ initPc' = "awaitSql"
  /\ lastOp' = Awaiting("initialize")
  /\ UNCHANGED others
  /\ UNCHANGED <<db, initialized, blob, impPc, impData, lastExport, ghost>>

\* initSqlJs settles, datastore.js 20-43: load the blob and migrate, or
\* create the database and its tables; sqlOk = FALSE: the runtime failed to
\* load.  this.initialized is set before runMigrations / createTables is
\* called; control then suspends on the await of its promise, fulfilled or
\* rejected (a failing ALTER, a refused write).
InitializeLoaded(sqlOk, writeOk) ==
  /\ initPc = "awaitSql"
  /\ IF ~sqlOk \/ (blob.present /\ blob.corrupt)
        THEN \* catch, lines 46-50
             /\ initialized' = FALSE
             /\ initPc' = "idle"
             /\ lastOp' = InitFailed
             /\ ghost' = [ghost EXCEPT !.initFailed = TRUE]
             /\ UNCHANGED <<db, blob>>
      ELSE IF blob.present
        THEN LET m == runMigrations(Deserialize(blob))
                 done == ~m.threw /\ writeOk
             IN /\ db' = m.db
                /\ blob' = IF m.threw THEN blob
                            ELSE persistToLocalStorage(m.db, blob, writeOk)
                /\ initialized' = TRUE
                /\ initPc' = IF done THEN "awaitMigrations"
                              ELSE "awaitMigrationsRejected"
                /\ lastOp' = Awaiting("initialize")
                /\ ghost' = ghost
      ELSE LET d1 == createTables(EmptyDb)
           IN /\ db' = d1
              /\ blob' = persistToLocalStorage(d1, blob, writeOk)
              /\ initialized' = TRUE
              /\ initPc' = IF writeOk THEN "awaitCreateTables"
                            ELSE "awaitCreateTablesRejected"
              /\ lastOp' = Awaiting("initialize")
              /\ ghost' = ghost
  /\ UNCHANGED others
  /\ UNCHANGED <<impPc, impData, lastExport>>

\* await runMigrations() resumes, datastore.js 35-50: initialize resolves,
\* with success, or through its catch when the promise was rejected
InitializeMigrated ==
  /\ initPc \in {"awaitMigrations", "awaitMigrationsRejected"}
  /\ initPc' = "idle"
  /\ IF initPc = "awaitMigrations"
        THEN /\ lastOp' = InitSucceeded
             /\ ghost' = [ghost EXCEPT !.initFailed = FALSE]
             /\ UNCHANGED initialized
      ELSE /\ initialized' = FALSE
           /\ lastOp' = InitFailed
           /\ ghost' = [ghost EXCEPT !.initFailed = TRUE]
  /\ UNCHANGED others
  /\ UNCHANGED <<db, blob, impPc, impData, lastExport>>

\* await createTables() resumes, datastore.js 40-50 and 264-266:
\* createDefaultAdmin calls hashPassword, which suspends on the digest; a
\* rejected createTables() takes initialize to its catch
InitializeSeed ==
  /\ initPc \in {"awaitCreateTables", "awaitCreateTablesRejected"}
  /\ IF initPc = "awaitCreateTables"
        THEN /\ initPc' = "awaitDigest"
             /\ lastOp' = Awaiting("initialize")
             /\ UNCHANGED <<initialized, ghost>>
      ELSE /\ initPc' = "idle"
           /\ initialized' = FALSE
           /\ lastOp' = InitFailed
           /\ ghost' = [ghost EXCEPT !.initFailed = TRUE]
  /\ UNCHANGED others
  /\ UNCHANGED <<db, blob, impPc, impData, lastExport>>

\* crypto.subtle.digest settles, datastore.js 266-272 and 41-50:
\* saveUser('admin', hash) runs on the engine as it is now and initialize
\* resolves; digestOk = FALSE: the digest rejected
InitializeDigested(digestOk, writeOk) ==
  /\ initPc = "awaitDigest"
  /\ initPc' = "idle"
  /\ LET out == SaveUserOutcome(db, initialized, blob, "admin",
                                hashPassword("admin123"), writeOk)
         done == digestOk /\ out.ret.ok
     IN /\ db' = IF digestOk THEN out.db ELSE db
        /\ blob' = IF digestOk THEN out.blob ELSE blob
        /\ initialized' = IF done THEN initialized ELSE FALSE
        /\ lastOp' = IF done THEN InitSucceeded ELSE InitFailed
        /\ ghost' = [ghost EXCEPT !.initFailed = ~done]
  /\ UNCHANGED others
  /\ UNCHANGED <<impPc, impData, lastExport>>

\* ---------------------------------------------------- backup and restore
\* A backup object: valid stands for "has version and data"; the five
\* arrays of backup.data hold the rows as exported, column by column.
InvalidSnapshot ==
  [valid |-> FALSE, users |-> {}, freight |-> {}, history |-> {},
   profiles |-> {}, fields |-> {}]

\* the rows exportBackup reads with SELECT * (a missing table gives [])
Snapshot(d) ==
  [valid |-> TRUE,
   users    |-> IF Usable(d, "users") THEN d.users ELSE {},
   freight  |-> IF Usable(d, "freight_details") THEN d.freight ELSE {},
   history  |-> IF Usable(d, "document_history") THEN d.history ELSE {},
   profiles |-> IF Usable(d, "company_profiles") THEN d.profiles ELSE {},
   fields   |-> IF Usable(d, "custom_field_definitions")
                  THEN d.fields ELSE {}]

\* exportBackup(), datastore.js 1005-1047
exportBackup ==
  /\ IF ~initialized
        THEN /\ lastOp' = Failure("exportBackup", NullId, NullId, FALSE,
                                   ErrUninit)
             /\ UNCHANGED lastExport
      ELSE /\ lastOp' = Success("exportBackup", NullId, NullId)
           /\ lastExport' = Snapshot(db)
  /\ UNCHANGED others
  /\ UNCHANGED <<db, initialized, blob, initPc, impPc, impData, ghost>>

\* an INSERT with explicit ids throws on a taken primary key, and on a
\* taken username in users
Conflict(table, row, t) ==
  \E q \in table : q.id = row.id \/ (t = "users" /\ q.username = row.username)

\* tableData.forEach(row => stmt.run(values)), datastore.js 1088-1091: rows
\* go in one by one, in the order exported, until one throws
RECURSIVE BulkInsert(_, _, _)
BulkInsert(table, rows, t) ==
  IF rows = {} THEN [rows |-> table, ok |-> TRUE]
  ELSE LET r == CHOOSE x \in rows : \A y \in rows : x.id <= y.id
       IN IF Conflict(table, r, t) THEN [rows |-> table, ok |-> FALSE]
          ELSE BulkInsert(table \cup {r}, rows \ {r}, t)

MaxId(rows, old) ==
  IF rows = {} THEN old
  ELSE LET m == CHOOSE x \in rows : \A y \in rows : y.id <= x.id
       IN IF m.id > old THEN m.id ELSE old

\* (mutant) an import loop that leaves document_history out
ImportRowsWithoutHistory(d, data) ==
  LET u == BulkInsert(d.users, data.users, "users")
      f == BulkInsert(d.freight, data.freight, "freight_details")
      p == BulkInsert(d.profiles, data.profiles, "company_profiles")
      c == BulkInsert(d.fields, data.fields, "custom_field_definitions")
  IN [db |-> [d EXCEPT !.users = u.rows, !.freight = f.rows,
                       !.profiles = p.rows, !.fields = c.rows],
      ok |-> u.ok /\ f.ok /\ p.ok /\ c.ok]

\* the import loop, datastore.js 1073-1094, table after table; the loop
\* ends at the first statement that throws
ImportRows(d, data) ==
  LET u == BulkInsert(d.users, data.users, "users")
      f == IF u.ok THEN BulkInsert(d.freight, data.freight, "freight_details")
           ELSE [rows |-> d.freight, ok |-> FALSE]
      h == IF f.ok THEN BulkInsert(d.history, data.history,
                                   "document_history")
           ELSE [rows |-> d.history, ok |-> FALSE]
      p == IF h.ok THEN BulkInsert(d.profiles, data.profiles,
                                   "company_profiles")
           ELSE [rows |-> d.profiles, ok |-> FALSE]
      c == IF p.ok THEN BulkInsert(d.fields, data.fields,
                                   "custom_field_definitions")
           ELSE [rows |-> d.fields, ok |-> FALSE]
  IN [db |-> [d EXCEPT !.users = u.rows, !.freight = f.rows,
                       !.history = h.rows, !.profiles = p.rows,
                       !.fields = c.rows,
                       !.seq = [t \in AllTables |->
                          CASE t = "users" -> MaxId(u.rows, @[t])
                            [] t = "freight_details" -> MaxId(f.rows, @[t])
                            [] t = "document_history" -> MaxId(h.rows, @[t])
                            [] t = "company_profiles" -> MaxId(p.rows, @[t])
                            [] OTHER -> MaxId(c.rows, @[t])]],
      ok |-> c.ok]

ErrFormat == "Invalid backup file format"

ImportFailed(err) == Failure("importBackup", NullId, NullId, initialized, err)

\* importBackup(backupData) is called, datastore.js 1052-1065: validate,
\* clearAllData(), then suspend on initSqlJs
ImportCall(backupData) ==
  /\ impPc = "idle"
  /\ IF ~backupData.valid
        THEN /\ lastOp' = ImportFailed(ErrFormat)
             /\ ghost' = [ghost EXCEPT !.impKept = TRUE]
             /\ UNCHANGED <<db, initialized, blob, impPc, impData>>
      ELSE /\ blob' = NoBlob
           /\ db' = NullDb
           /\ initialized' = FALSE
           /\ impPc' = "awaitSql"
           /\ impData' = backupData
           /\ ghost' = [ghost EXCEPT !.saved = {}, !.impBlob = blob]
           /\ lastOp' = Awaiting("importBackup")
  /\ UNCHANGED others
  /\ UNCHANGED <<initPc, lastExport>>

\* initSqlJs settles, datastore.js 1063-1070: new database, initialized,
\* createTables(); control suspends on the await of createTables
ImportLoaded(sqlOk, writeOk) ==
  /\ impPc = "awaitSql"
  /\ IF ~sqlOk
        THEN /\ impPc' = "idle"
             /\ impData' = InvalidSnapshot
             /\ lastOp' = ImportFailed(ErrEngine)
             /\ ghost' = [ghost EXCEPT !.impBlob = NoBlob,
                                       !.impKept = (blob = @.impBlob)]
             /\ UNCHANGED <<db, initialized, blob>>
      ELSE LET d1 == createTables(EmptyDb)
           IN /\ db' = d1
              /\ initialized' = TRUE
              /\ blob' = persistToLocalStorage(d1, blob, writeOk)
              /\ impPc' = IF writeOk THEN "awaitCreateTables" ELSE "idle"
              /\ impData' = IF writeOk THEN impData ELSE InvalidSnapshot
              /\ lastOp' = IF writeOk THEN Awaiting("importBackup")
                            ELSE Failure("importBackup", NullId, NullId, TRUE,
                                         ErrPersist)
              /\ ghost' = IF writeOk THEN ghost
                           ELSE [ghost EXCEPT !.impBlob = NoBlob,
                                   !.impKept = (blob' = ghost.impBlob)]
  /\ UNCHANGED others
  /\ UNCHANGED <<initPc, lastExport>>

\* await createTables() resumes, datastore.js 1072-1105: insert the rows,
\* persist, resolve
ImportFinish(writeOk) ==
  /\ impPc = "awaitCreateTables"
  /\ impPc' = "idle"
  /\ impData' = InvalidSnapshot
  /\ IF db.isNull \/ db.tables # AllTables
        THEN /\ lastOp' = ImportFailed(ErrEngine)
             /\ UNCHANGED <<db, blob>>
      ELSE LET r == ImportRows(db, impData)
           IN /\ db' = r.db
              /\ blob' = IF r.ok
                            THEN persistToLocalStorage(r.db, blob, writeOk)
                            ELSE blob
              /\ lastOp' = IF r.ok /\ writeOk
                             THEN Success("importBackup", NullId, NullId)
                           ELSE IF r.ok THEN ImportFailed(ErrPersist)
                           ELSE ImportFailed(ErrEngine)
  /\ ghost' = [ghost EXCEPT !.impBlob = NoBlob,
                            !.impKept = (blob' = ghost.impBlob)]
  /\ UNCHANGED others
  /\ UNCHANGED <<initialized, initPc, lastExport>>

\* ------------------------------------------------------------ AuthManager
\* AuthManager (settings-controller.js 591-818): login, logout and the
\* session kept in localStorage under SESSION_KEY.  login() is cut at its
\* two awaits, the digest and verifyUser.
SESSION_KEY == "sessionToken"

HourMs == 60 * 60 * 1000

\* this.SESSION_DURATION, in milliseconds
SESSION_DURATION == 24 * 60 * 60 * 1000

\* the clock is looked at every twelve hours, MaxClockSteps times
ClockStep == 12 * HourMs
MaxClockSteps == 4

\* generateSessionToken(): 32 random bytes in hex; any value may come out
Tokens == {"5f2a", "c81d"}
NoToken == ""

\* new Date(ms).toISOString() and new Date(text): the text holds the time
\* to the millisecond
toISOString(ms) == [iso |-> ms]
DateOf(text) == text.iso

NoSession ==
  [present |-> FALSE, token |-> NoToken, userId |-> NullId,
   expiresAt |-> toISOString(0)]

\* JSON.stringify({token, userId, expiresAt})
SessionData(token, userId, expiresAt) ==
  [present |-> TRUE, token |-> token, userId |-> userId,
   expiresAt |-> expiresAt]

ErrInvalid == "Invalid username or password"
ErrLogin == "Login failed. Please try again."

\* What an AuthManager call returned.  ok / token / err: the fields of
\* login's result; value: what isAuthenticated returned; token / id: what
\* getSessionToken / getUserId returned (NoToken / NullId for null).
AuthRet(op, ok, token, err, value, id) ==
  [op |-> op, done |-> TRUE, ok |-> ok, token |-> token, err |-> err,
   value |-> value, id |-> id]

NoAuthOp == AuthRet("none", FALSE, NoToken, "", FALSE, NullId)

NoArgs ==
  [username |-> "", password |-> "", valid |-> FALSE, userId |-> NullId]

AuthInit ==
  /\ session = NoSession
  /\ now = 0
  /\ authPc = "idle"
  /\ authArgs = NoArgs
  /\ authOp = NoAuthOp

engine == <<db, initialized, blob, initPc, impPc, impData, lastExport,
            lastOp>>

\* login(username, password) is called, settings-controller.js 636-646:
\* empty input is refused at once, else login suspends on hashPassword
LoginCall(username, password) ==
  /\ authPc = "idle"
  /\ IF username = "" \/ password = ""
        THEN /\ authOp' = AuthRet("login", FALSE, NoToken, ErrInvalid, FALSE,
                                  NullId)
             /\ UNCHANGED <<authPc, authArgs>>
      ELSE /\ authPc' = "awaitHash"
           /\ authArgs' = [NoArgs EXCEPT !.username = username,
                                         !.password = password]
           /\ authOp' = [NoAuthOp EXCEPT !.op = "login", !.done = FALSE]
  /\ UNCHANGED <<session, now, ghost>>
  /\ UNCHANGED engine
  /\ UNCHANGED <<ui, parked>>

\* the digest settles, settings-controller.js 646-649: verifyUser runs on
\* the engine as it is now and login suspends on its promise; digestOk =
\* FALSE: the digest rejected, login returns through its catch
LoginHashed(digestOk) ==
  /\ authPc = "awaitHash"
  /\ IF ~digestOk
        THEN /\ authPc' = "idle"
             /\ authArgs' = NoArgs
             /\ authOp' = AuthRet("login", FALSE, NoToken, ErrLogin, FALSE,
                                  NullId)
      ELSE LET v == VerifyUserOutcome(db, initialized, authArgs.username,
                                      hashPassword(authArgs.password))
           IN /\ authPc' = "awaitVerify"
              /\ authArgs' = [authArgs EXCEPT !.valid = v.ok,
                                              !.userId = v.id]
              /\ UNCHANGED authOp
  /\ UNCHANGED <<session, now, ghost>>
  /\ UNCHANGED engine
  /\ UNCHANGED <<ui, parked>>

\* await verifyUser resumes, settings-controller.js 651-674: an invalid
\* verdict is refused; else a token is drawn, the session is stored with
\* expiresAt = Date.now() + SESSION_DURATION and the token is returned;
\* writeOk = FALSE: localStorage.setItem throws
LoginVerified(token, writeOk) ==
  /\ authPc = "awaitVerify"
  /\ authPc' = "idle"
  /\ authArgs' = NoArgs
  /\ IF ~authArgs.valid
        THEN /\ authOp' = AuthRet("login", FALSE, NoToken, ErrInvalid, FALSE,
                                  NullId)
             /\ UNCHANGED <<session, ghost>>
      ELSE IF ~writeOk
        THEN /\ authOp' = AuthRet("login", FALSE, NoToken, ErrLogin, FALSE,
                                  NullId)
             /\ UNCHANGED <<session, ghost>>
      ELSE /\ session' = SessionData(token, authArgs.userId,
                                     toISOString(now + SESSION_DURATION))
           /\ authOp' = AuthRet("login", TRUE, token, "", FALSE, NullId)
           /\ ghost' = [ghost EXCEPT !.live = TRUE, !.loginToken = token,
                                     !.loginAt = now]
  /\ UNCHANGED now
  /\ UNCHANGED engine
  /\ UNCHANGED <<ui, parked>>

\* (mutant) logout that leaves the stored session
logoutKeepsSession ==
  /\ authOp' = AuthRet("logout", TRUE, NoToken, "", FALSE, NullId)
  /\ ghost' = [ghost EXCEPT !.live = FALSE]
  /\ UNCHANGED <<session, now, authPc, authArgs>>
  /\ UNCHANGED engine
  /\ UNCHANGED <<ui, parked>>

\* logout(), settings-controller.js 679-685
logout ==
  /\ session' = NoSession
  /\ authOp' = AuthRet("logout", TRUE, NoToken, "", FALSE, NullId)
  /\ ghost' = [ghost EXCEPT !.live = FALSE]
  /\ UNCHANGED <<now, authPc, authArgs>>
  /\ UNCHANGED engine
  /\ UNCHANGED <<ui, parked>>

\* (mutant) a session that is still good at the instant it expires
ExpiredAfter(sess, t) == t > DateOf(sess.expiresAt)

\* now >= expiresAt, settings-controller.js 709-713
Expired(sess, t) == t >= DateOf(sess.expiresAt)

\* The body of isAuthenticated (settings-controller.js 692-726) on the
\* stored session sess at time t: what it returns and what it leaves
\* stored (a session without its fields, or expired, is removed)
IsAuthenticatedOutcome(sess, t) ==
  IF ~sess.present THEN [value |-> FALSE, session |-> sess]
  ELSE IF sess.token = NoToken \/ sess.userId = NullId
    THEN [value |-> FALSE, session |-> NoSession]
  ELSE IF Expired(sess, t) THEN [value |-> FALSE, session |-> NoSession]
  ELSE [value |-> TRUE, session |-> sess]

\* isAuthenticated(), settings-controller.js 692-726
isAuthenticated ==
  /\ LET out == IsAuthenticatedOutcome(session, now)
     IN /\ session' = out.session
        /\ authOp' = AuthRet("isAuthenticated", TRUE, NoToken, "", out.value,
                             NullId)
  /\ UNCHANGED <<now, authPc, authArgs, ghost>>
  /\ UNCHANGED engine
  /\ UNCHANGED <<ui, parked>>

\* getSessionToken(), settings-controller.js 732-746
getSessionToken ==
  /\ LET out == IsAuthenticatedOutcome(session, now)
     IN /\ session' = out.session
        /\ authOp' = AuthRet("getSessionToken", TRUE,
                             IF out.value THEN out.session.token ELSE NoToken,
                             "", out.value, NullId)
  /\ UNCHANGED <<now, authPc, authArgs, ghost>>
  /\ UNCHANGED engine
  /\ UNCHANGED <<ui, parked>>

\* getUserId(), settings-controller.js 752-766
getUserId ==
  /\ LET out == IsAuthenticatedOutcome(session, now)
     IN /\ session' = out.session
        /\ authOp' = AuthRet("getUserId", TRUE, NoToken, "", out.value,
                             IF out.value THEN out.session.userId ELSE NullId)
  /\ UNCHANGED <<now, authPc, authArgs, ghost>>
  /\ UNCHANGED engine
  /\ UNCHANGED <<ui, parked>>

\* time passes
Tick ==
  /\ now < MaxClockSteps * ClockStep
  /\ now' = now + ClockStep
  /\ UNCHANGED <<session, authPc, authArgs, authOp, ghost>>
  /\ UNCHANGED engine
  /\ UNCHANGED <<ui, parked>>

\* ------------------------------------------------------- freight form
\* ui-controller.js 185-255 and validator.js: what the inputs of the form
\* can hold (the .value of an input is a string)
OriginTexts      == {"", "  ", "Pune"}
DestinationTexts == {"Delhi"}
GoodsTexts       == {"Steel"}
WeightTexts      == {"0", "250"}
AmountTexts      == {"abc", "5000"}
DiscountTexts    == {"", "100"}
TaxesTexts       == {"", "900"}
EwayTexts        == {"EWB123", "EW-1"}

Forms ==
  [origin : OriginTexts, destination : DestinationTexts,
   goodsDescription : GoodsTexts, weight : WeightTexts,
   amount : AmountTexts, discount : DiscountTexts, taxes : TaxesTexts,
   ewayBillNumber : EwayTexts]

\* a JavaScript number: NaN, or the number n
NaN == [nan |-> TRUE, n |-> 0]
Num(n) == [nan |-> FALSE, n |-> n]

\* parseFloat(text) on the texts above
parseFloat(text) ==
  CASE text = "0" -> Num(0)
    [] text = "100" -> Num(100)
    [] text = "250" -> Num(250)
    [] text = "900" -> Num(900)
    [] text = "5000" -> Num(5000)
    [] OTHER -> NaN

\* x || 0 for a number x: NaN and 0 are falsy
OrZero(x) == IF x.nan \/ x.n = 0 THEN Num(0) ELSE x

\* x || null for a string x: '' is falsy
OrNull(text) == IF text = "" THEN NullText ELSE text

\* text.trim() on the texts above
Trim(text) == IF text = "  " THEN "" ELSE text

\* /^[a-zA-Z0-9]+$/.test(text) on the texts above
Alphanumeric(text) == text \notin {"", "  ", "EW-1"}

\* collectFormData(), ui-controller.js 241-255 (the date of the eWay bill
\* goes through unchanged and is left out)
collectFormData(form) ==
  [origin |-> form.origin, destination |-> form.destination,
   goodsDescription |-> form.goodsDescription,
   weight |-> OrZero(parseFloat(form.weight)),
   amount |-> OrZero(parseFloat(form.amount)),
   discount |-> OrZero(parseFloat(form.discount)),
   taxes |-> OrZero(parseFloat(form.taxes)),
   ewayBillNumber |-> OrNull(form.ewayBillNumber)]

\* FormValidator.REQUIRED_FIELDS that are not numeric, and NUMERIC_FIELDS,
\* validator.js 9 and 14
REQUIRED_TEXT_FIELDS == {"origin", "destination", "goodsDescription"}
NUMERIC_FIELDS == {"weight", "amount", "discount", "taxes"}

ErrNotNumber == "must be a valid number"
ErrNotPositive == "must be a positive number greater than 0"
ErrRequired == "is required"
ErrWhitespace == "cannot be only whitespace"
ErrEway == "eWay bill number must be alphanumeric (letters and numbers only)"

\* validateNumeric(value, fieldName) on a number, validator.js 140-161:
\* the error, "" when the value is valid
validateNumeric(value) ==
  IF value.nan THEN ErrNotNumber
  ELSE IF value.n <= 0 THEN ErrNotPositive
  ELSE ""

\* checkRequiredFields(formData), validator.js 121-132: weight and amount
\* are numbers in the collected data, never undefined, null or ''
checkRequiredFields(formData) ==
  {f \in REQUIRED_TEXT_FIELDS : formData[f] = ""}

\* validateFreightForm(formData), validator.js 21-74, on collected data:
\* every numeric field is a number, so each is validated
validateFreightForm(formData) ==
  LET errors ==
        {[field |-> f, message |-> ErrRequired] :
           f \in checkRequiredFields(formData)}
        \cup {[field |-> f, message |-> validateNumeric(formData[f])] :
                f \in {g \in NUMERIC_FIELDS :
                         validateNumeric(formData[g]) # ""}}
        \cup {[field |-> f, message |-> ErrWhitespace] :
                f \in {g \in REQUIRED_TEXT_FIELDS :
                         formData[g] # "" /\ Trim(formData[g]) = ""}}
        \cup (IF /\ formData.ewayBillNumber # NullText
                  /\ Trim(formData.ewayBillNumber) # ""
                  /\ ~Alphanumeric(Trim(formData.ewayBillNumber))
                THEN {[field |-> "ewayBillNumber", message |-> ErrEway]}
                ELSE {})
  IN [valid |-> errors = {}, errors |-> errors]

\* what became of a submission: the form as filled in, the verdict of the
\* validator, and the discount and taxes bound into the INSERT when the
\* record was saved
Submission(form, validation, outcome, discount, taxes) ==
  [form |-> form, valid |-> validation.valid,
   errors |-> {e.field : e \in validation.errors}, outcome |-> outcome,
   discount |-> discount, taxes |-> taxes]

NoForm ==
  [origin |-> "", destination |-> "", goodsDescription |-> "",
   weight |-> "", amount |-> "", discount |-> "", taxes |-> "",
   ewayBillNumber |-> ""]

NoSubmit ==
  [form |-> NoForm, valid |-> FALSE, errors |-> {}, outcome |-> "none",
   discount |-> NaN, taxes |-> NaN]

\* handleFormSubmit(event), ui-controller.js 185-236: no await in it, it
\* runs in one piece
handleFormSubmit(form, writeOk) ==
  /\ UNCHANGED <<now, authPc, authArgs, parked>>
  /\ LET formData == collectFormData(form)
         validation == validateFreightForm(formData)
         out == IsAuthenticatedOutcome(session, now)
         userId == IF out.value THEN out.session.userId ELSE NullId
     IN IF ~validation.valid
          THEN /\ ui' = Submission(form, validation, "errors shown", NaN, NaN)
               /\ UNCHANGED <<session, authOp, ghost>>
               /\ UNCHANGED engine
        ELSE /\ session' = out.session
             /\ authOp' = AuthRet("getUserId", TRUE, NoToken, "", out.value,
                                  userId)
             /\ IF userId = NullId
                   THEN /\ ui' = Submission(form, validation, "session expired",
                                            NaN, NaN)
                        /\ UNCHANGED ghost
                        /\ UNCHANGED engine
                 ELSE /\ SaveFreightDetailsBody(
                           [userId |-> userId, origin |-> formData.origin],
                           writeOk)
                      /\ ui' = IF lastOp'.ok
                                 THEN Submission(form, validation, "saved",
                                                 OrZero(formData.discount),
                                                 OrZero(formData.taxes))
                                 ELSE Submission(form, validation, "save failed",
                                                 NaN, NaN)

\* ---------------------------------------------------------- two tabs
\* Each tab or window runs its own DataStoreManager (datastore.js 7-11) on
\* the one localStorage of the origin.  The variables db ... lastOp are the
\* fields of the instance of the tab that runs; parked holds those of the
\* other tab.
Engine ==
  [db |-> db, initialized |-> initialized, initPc |-> initPc,
   impPc |-> impPc, impData |-> impData, lastExport |-> lastExport,
   lastOp |-> lastOp]

\* The event loop of the other tab takes its turn: the calls of the two
\* tabs interleave between the synchronous pieces of their methods.
SwitchTab ==
  /\ parked' = Engine
  /\ db' = parked.db
  /\ initialized' = parked.initialized
  /\ initPc' = parked.initPc
  /\ impPc' = parked.impPc
  /\ impData' = parked.impData
  /\ lastExport' = parked.lastExport
  /\ lastOp' = parked.lastOp
  /\ UNCHANGED <<blob, ghost, session, now, authPc, authArgs, authOp, ui>>

\* ------------------------------------------------------- specifications
FreightInputs == [userId : UserIds, origin : Origins]
ProfileInputs == [userId : UserIds, name : ProfileNames, isDefault : BOOLEAN]
FieldInputs   == [userId : UserIds, fieldName : FieldNames,
                  isActive : BOOLEAN]
FreightIds == 1 .. MaxFreight
ProfileIds == 1 .. MaxProfile
FieldIds   == 1 .. MaxField

\* The fields of a DataStoreManager after construction, datastore.js 7-11
NewEngine ==
  [db |-> NullDb, initialized |-> FALSE, initPc |-> "idle",
   impPc |-> "idle", impData |-> InvalidSnapshot,
   lastExport |-> InvalidSnapshot, lastOp |-> NoOp]

\* The page is closed, whatever its DataStoreManager was doing, and opened
\* again: a new instance is constructed (datastore.js 7-11), localStorage
\* keeps what it held.
Reload ==
  /\ db' = NewEngine.db
  /\ initialized' = NewEngine.initialized
  /\ initPc' = NewEngine.initPc
  /\ impPc' = NewEngine.impPc
  /\ impData' = NewEngine.impData
  /\ lastExport' = NewEngine.lastExport
  /\ lastOp' = NewEngine.lastOp
  /\ UNCHANGED <<blob, ghost>>
  /\ UNCHANGED others

\* The engine after construction (datastore.js 7-11); localStorage holds
\* nothing, a database left by the earlier release, or unreadable bytes.
Init ==
  /\ db = NullDb
  /\ initialized = FALSE
  /\ blob \in {NoBlob, Serialize(LegacyDb), CorruptBlob}
  /\ initPc = "idle"
  /\ impPc = "idle"
  /\ impData = InvalidSnapshot
  /\ lastExport = InvalidSnapshot
  /\ lastOp = NoOp
  /\ ghost = [saved |-> {}, initFailed |-> FALSE, impBlob |-> NoBlob,
              impKept |-> TRUE, live |-> FALSE, loginToken |-> NoToken,
              loginAt |-> 0]
  /\ AuthInit
  /\ ui = NoSubmit
  /\ parked = NewEngine

\* E: the outcomes the environment may give an awaited load or digest;
\* W: the outcomes it may give a localStorage write.
Initialize(E, W) ==
  \/ InitializeCall
  \/ \E sqlOk \in E, writeOk \in W : InitializeLoaded(sqlOk, writeOk)
  \/ InitializeMigrated
  \/ InitializeSeed
  \/ \E digestOk \in E, writeOk \in W : InitializeDigested(digestOk, writeOk)

\* Freight records and their document history on an engine at rest: the
\* pages await initialize() before they issue calls (ui-controller.js 50),
\* the runtime loads and localStorage has room.  Records are saved with one
\* origin and updated to the other.
NextOwner ==
  \/ Initialize({TRUE}, {TRUE})
  \/ \E u \in UserIds :
       /\ initPc = "idle"
       /\ saveFreightDetails([userId |-> u, origin |-> "Mumbai"], TRUE)
  \/ \E id \in FreightIds, c \in UserIds :
       initPc = "idle" /\ getFreightDetails(id, c)
  \/ \E u \in UserIds :
       initPc = "idle" /\ getUserFreightRecords(u)
  \/ \E id \in FreightIds, u \in UserIds :
       /\ initPc = "idle"
       /\ updateFreightDetails(id, [userId |-> u, origin |-> "Delhi"], TRUE)
  \/ \E id \in FreightIds, u \in UserIds :
       initPc = "idle" /\ deleteFreightDetails(id, u, TRUE)
  \/ \E id \in FreightIds, t \in DocTypes :
       initPc = "idle" /\ recordDocumentGeneration(id, t, TRUE)
  \/ \E id \in FreightIds, c \in UserIds :
       initPc = "idle" /\ getDocumentHistory(id, c)

SpecOwner == Init /\ [][NextOwner]_vars

\* The blob holds what the engine holds: the last write went through, or
\* nothing is stored and no database is open.
InSync ==
  \/ blob = Serialize(db)
  \/ ~blob.present /\ db.isNull

\* localStorage may refuse a write (quota exceeded), here never twice in a
\* row: the write that follows a refused one goes through.
StorageOutcomes == IF InSync THEN BOOLEAN ELSE {TRUE}

AtRest == initPc = "idle" /\ impPc = "idle"

\* Every mutating operation, for one owner and on an engine at rest, on a
\* storage that may refuse writes; the runtime loads.  initialize() is
\* called on an engine that is not initialized (page load, or after a
\* failure or clearAllData).  A restore is given the backup just exported,
\* or a file that is no backup.
Room ==
  ~db.isNull =>
    db.seq["freight_details"] + db.seq["document_history"]
      + db.seq["company_profiles"] + db.seq["custom_field_definitions"]
      < MaxPersistRows

NextPersist ==
  \/ \E w \in StorageOutcomes :
       /\ impPc = "idle" /\ (initPc = "idle" => ~initialized)
       /\ Initialize({TRUE}, {w})
  \/ \E w \in StorageOutcomes :
       /\ AtRest /\ Room
       /\ saveFreightDetails([userId |-> 1, origin |-> "Mumbai"], w)
  \/ \E w \in StorageOutcomes :
       AtRest /\ updateFreightDetails(1, [userId |-> 1, origin |-> "Delhi"], w)
  \/ \E w \in StorageOutcomes : AtRest /\ deleteFreightDetails(1, 1, w)
  \/ \E w \in StorageOutcomes :
       /\ AtRest /\ Room
       /\ recordDocumentGeneration(1, "bilty", w)
  \/ \E w \in StorageOutcomes :
       AtRest /\ saveUser("bob", hashPassword("letmein"), w)
  \/ \E w \in StorageOutcomes :
       /\ AtRest /\ Room
       /\ saveCompanyProfile(
            [userId |-> 1, name |-> "Acme", isDefault |-> TRUE], w)
  \/ \E w \in StorageOutcomes :
       AtRest /\ updateCompanyProfile(
                   1, [userId |-> 1, name |-> "Acme", isDefault |-> FALSE], w)
  \/ \E w \in StorageOutcomes : AtRest /\ deleteCompanyProfile(1, 1, w)
  \/ \E w \in StorageOutcomes :
       /\ AtRest /\ Room
       /\ saveCustomField(
            [userId |-> 1, fieldName |-> "vehicle_no", isActive |-> TRUE], w)
  \/ \E w \in StorageOutcomes : AtRest /\ deleteCustomField(1, 1, w)
  \/ \E data \in {Snapshot(db), InvalidSnapshot} :
       AtRest /\ initialized /\ ImportCall(data)
  \/ \E w \in StorageOutcomes : ImportLoaded(TRUE, w)
  \/ \E w \in StorageOutcomes : ImportFinish(w)
  \/ AtRest /\ clearAllData

SpecPersist == Init /\ [][NextPersist]_vars

\* Calls issued at any moment, also while initialize() is in flight (the
\* engine does not serialize its callers), on a runtime that may fail to
\* load, a digest that may reject and a storage that may refuse the writes
\* of initialize(); one owner, MaxPersistRows rows.
NextInit ==
  \/ /\ initPc = "idle" => ~initialized
     /\ Initialize(BOOLEAN, BOOLEAN)
  \/ clearAllData
  \/ \E n \in Usernames : saveUser(n, hashPassword("letmein"), TRUE)
  \/ verifyUser("admin", hashPassword("admin123"))
  \/ Room /\ saveFreightDetails([userId |-> 1, origin |-> "Mumbai"], TRUE)
  \/ getFreightDetails(1, 1)
  \/ getUserFreightRecords(1)
  \/ updateFreightDetails(1, [userId |-> 1, origin |-> "Delhi"], TRUE)
  \/ deleteFreightDetails(1, 1, TRUE)
  \/ Room /\ recordDocumentGeneration(1, "bilty", TRUE)
  \/ getDocumentHistory(1, 1)
  \/ /\ Room
     /\ saveCompanyProfile(
          [userId |-> 1, name |-> "Acme", isDefault |-> TRUE], TRUE)
  \/ updateCompanyProfile(
       1, [userId |-> 1, name |-> "Acme", isDefault |-> FALSE], TRUE)
  \/ deleteCompanyProfile(1, 1, TRUE)
  \/ getUserCompanyProfiles(1)
  \/ getDefaultCompanyProfile(1)
  \/ /\ Room
     /\ saveCustomField(
          [userId |-> 1, fieldName |-> "vehicle_no", isActive |-> TRUE], TRUE)
  \/ deleteCustomField(1, 1, TRUE)
  \/ getUserCustomFields(1)

SpecInit == Init /\ [][NextInit]_vars

\* A backup file that has the version and data markers and holds two
\* company profiles of user 1, both with is_default = 1: importBackup checks
\* the two markers only (datastore.js 1055), the rows are the file's.
TwoDefaultsSnapshot ==
  [InvalidSnapshot EXCEPT
     !.valid = TRUE,
     !.profiles = {[id |-> i, user_id |-> 1, name |-> "Acme",
                    is_default |-> 1] : i \in 1 .. 2}]

\* Company profiles of two owners on an engine at rest, the runtime loads
\* and localStorage has room; a restore is given the backup of the current
\* database or the file above.
NextProfiles ==
  \/ /\ impPc = "idle" /\ (initPc = "idle" => ~initialized)
     /\ Initialize({TRUE}, {TRUE})
  \/ \E q \in ProfileInputs : AtRest /\ saveCompanyProfile(q, TRUE)
  \/ \E id \in ProfileIds, q \in ProfileInputs :
       AtRest /\ updateCompanyProfile(id, q, TRUE)
  \/ \E id \in ProfileIds, u \in UserIds :
       AtRest /\ deleteCompanyProfile(id, u, TRUE)
  \/ \E u \in UserIds : AtRest /\ getUserCompanyProfiles(u)
  \/ \E u \in UserIds : AtRest /\ getDefaultCompanyProfile(u)
  \/ \E data \in {Snapshot(db), TwoDefaultsSnapshot} :
       AtRest /\ initialized /\ ImportCall(data)
  \/ ImportLoaded(TRUE, TRUE)
  \/ ImportFinish(TRUE)

SpecProfiles == Init /\ [][NextProfiles]_vars

\* Freight records as the data model has them: origin stands for the ten
\* columns saveFreightDetails writes, companyProfileId and customFields are
\* the two fields added with company profiles and custom fields.
ProfileRefs == {NullId, 1}
CustomFieldTexts == {NullText, "{\"vehicle_no\":\"MH12\"}"}
FullFreightInputs ==
  [userId : UserIds, origin : Origins, companyProfileId : ProfileRefs,
   customFields : CustomFieldTexts]

\* Records saved with every field of the data model and read back, on an
\* engine at rest; the runtime loads and localStorage has room.
NextRoundTrip ==
  \/ Initialize({TRUE}, {TRUE})
  \/ \E f \in FullFreightInputs : AtRest /\ saveFreightDetails(f, TRUE)
  \/ \E id \in FreightIds, c \in UserIds : AtRest /\ getFreightDetails(id, c)
  \/ \E id \in FreightIds, u \in UserIds :
       AtRest /\ deleteFreightDetails(id, u, TRUE)

SpecRoundTrip == Init /\ [][NextRoundTrip]_vars

\* Backup and restore on an engine at rest, for one owner: rows are
\* saved and deleted, the database is exported, and a restore is given the
\* last exported backup; the runtime loads and localStorage has room.
NextBackup ==
  \/ /\ impPc = "idle" /\ (initPc = "idle" => ~initialized)
     /\ Initialize({TRUE}, {TRUE})
  \/ AtRest /\ saveUser("bob", hashPassword("letmein"), TRUE)
  \/ /\ AtRest /\ Room
     /\ saveFreightDetails([userId |-> 1, origin |-> "Mumbai"], TRUE)
  \/ AtRest /\ deleteFreightDetails(1, 1, TRUE)
  \/ AtRest /\ Room /\ recordDocumentGeneration(1, "bilty", TRUE)
  \/ /\ AtRest /\ Room
     /\ saveCompanyProfile(
          [userId |-> 1, name |-> "Acme", isDefault |-> TRUE], TRUE)
  \/ /\ AtRest /\ Room
     /\ saveCustomField(
          [userId |-> 1, fieldName |-> "vehicle_no", isActive |-> TRUE], TRUE)
  \/ AtRest /\ exportBackup
  \/ AtRest /\ initialized /\ lastExport.valid /\ ImportCall(lastExport)
  \/ ImportLoaded(TRUE, TRUE)
  \/ ImportFinish(TRUE)

SpecBackup == Init /\ [][NextBackup]_vars

\* A backup file with the two format markers whose users rows clash: two
\* rows carry the username admin, so the second INSERT fails on UNIQUE.
ClashingSnapshot ==
  [InvalidSnapshot EXCEPT
     !.valid = TRUE,
     !.users = {[id |-> 1, username |-> "admin",
                 password_hash |-> hashPassword("admin123")],
                [id |-> 2, username |-> "admin",
                 password_hash |-> hashPassword("letmein")]},
     !.freight = {[id |-> 1, user_id |-> 1, origin |-> "Delhi",
                   company_profile_id |-> NullId,
                   custom_fields |-> NullText]}]

\* Restores on an engine at rest: the file is the backup of the current
\* database, no backup at all, or a backup whose rows clash; the runtime
\* loads, localStorage may refuse the writes of the restore.
NextRestore ==
  \/ /\ impPc = "idle" /\ (initPc = "idle" => ~initialized)
     /\ Initialize({TRUE}, {TRUE})
  \/ /\ AtRest /\ Room
     /\ saveFreightDetails([userId |-> 1, origin |-> "Mumbai"], TRUE)
  \/ AtRest /\ getUserFreightRecords(1)
  \/ AtRest /\ verifyUser("admin", hashPassword("admin123"))
  \/ \E data \in {Snapshot(db), InvalidSnapshot, ClashingSnapshot} :
       AtRest /\ initialized /\ ImportCall(data)
  \/ \E w \in BOOLEAN : ImportLoaded(TRUE, w)
  \/ \E w \in BOOLEAN : ImportFinish(w)

SpecRestore == Init /\ [][NextRestore]_vars

\* The table an index is on
IndexTable(i) ==
  CASE i = "idx_document_freight_id" -> "document_history"
    [] i = "idx_company_profiles_user_id" -> "company_profiles"
    [] i = "idx_custom_fields_user_id" -> "custom_field_definitions"
    [] OTHER -> "freight_details"

\* A schema SQLite can hold: columns and indexes only on tables that are
\* there, the index on company_profile_id only with its column
WellFormedSchema(T, C, I) ==
  /\ ("freight_details" \in T \/ C = {})
  /\ \A i \in I : IndexTable(i) \in T
  /\ ("idx_freight_company_profile" \in I => "company_profile_id" \in C)

\* Databases a stored blob may hold: any of the five tables, freight_details
\* with or without its two later columns, any of the indexes; the rows of
\* LegacyDb in the tables that exist.
SchemaDb(T, C, I) ==
  [LegacyDb EXCEPT
     !.tables = T, !.freightCols = C, !.indexes = I,
     !.users = IF "users" \in T THEN @ ELSE {},
     !.freight = IF "freight_details" \in T THEN @ ELSE {},
     !.seq = [t \in AllTables |-> IF t \in T THEN @[t] ELSE 0]]

SchemaDbs ==
  {SchemaDb(x[1], x[2], x[3]) :
     x \in {y \in (SUBSET AllTables) \X (SUBSET NewFreightCols)
                    \X (SUBSET AllIndexes) :
              WellFormedSchema(y[1], y[2], y[3])}}

\* The engine after construction, with localStorage holding nothing or a
\* database of any schema
InitMigrate ==
  /\ db = NullDb
  /\ initialized = FALSE
  /\ blob \in {NoBlob} \cup {Serialize(d) : d \in SchemaDbs}
  /\ initPc = "idle"
  /\ impPc = "idle"
  /\ impData = InvalidSnapshot
  /\ lastExport = InvalidSnapshot
  /\ lastOp = NoOp
  /\ ghost = [saved |-> {}, initFailed |-> FALSE, impBlob |-> NoBlob,
              impKept |-> TRUE, live |-> FALSE, loginToken |-> NoToken,
              loginAt |-> 0]
  /\ AuthInit
  /\ ui = NoSubmit
  /\ parked = NewEngine

\* Startup on a stored database of any schema and the calls a page makes
\* once initialize() has returned, runMigrations() among them; the runtime
\* loads and localStorage has room.
NextMigrate ==
  \/ /\ impPc = "idle" /\ (initPc = "idle" => ~initialized)
     /\ Initialize({TRUE}, {TRUE})
  \/ AtRest /\ RunMigrations(TRUE)
  \/ AtRest /\ saveUser("bob", hashPassword("letmein"), TRUE)
  \/ AtRest /\ verifyUser("admin", hashPassword("admin123"))
  \/ AtRest /\ getUserFreightRecords(1)
  \/ AtRest /\ getUserCompanyProfiles(1)

SpecMigrate == InitMigrate /\ [][NextMigrate]_vars

\* Startup on a stored database of any schema with calls issued at any
\* moment, also while initialize() is in flight; the runtime loads and
\* localStorage has room.
NextStartup ==
  \/ /\ initPc = "idle" => ~initialized
     /\ Initialize({TRUE}, {TRUE})
  \/ saveUser("bob", hashPassword("letmein"), TRUE)
  \/ verifyUser("admin", hashPassword("admin123"))
  \/ getUserCompanyProfiles(1)

SpecStartup == InitMigrate /\ [][NextStartup]_vars

\* Custom field definitions on an engine at rest: they are saved, deleted
\* by their owner or by another user, listed and exported; the runtime
\* loads and localStorage has room.
NextFields ==
  \/ /\ impPc = "idle" /\ (initPc = "idle" => ~initialized)
     /\ Initialize({TRUE}, {TRUE})
  \/ \E c \in FieldInputs : AtRest /\ saveCustomField(c, TRUE)
  \/ \E id \in FieldIds, u \in UserIds : AtRest /\ deleteCustomField(id, u, TRUE)
  \/ \E u \in UserIds : AtRest /\ getUserCustomFields(u)
  \/ AtRest /\ exportBackup

SpecFields == Init /\ [][NextFields]_vars

LoginNames == {"", "admin", "bob"}
LoginPasswords == {"", "admin123", "letmein"}

\* Logins, logouts and session checks at any moment while time passes, on
\* an engine that starts up and may get a second user; the runtime loads,
\* the digest may reject and localStorage may refuse to store the session.
NextAuth ==
  \/ /\ impPc = "idle" /\ (initPc = "idle" => ~initialized)
     /\ Initialize({TRUE}, {TRUE})
  \/ AtRest /\ saveUser("bob", hashPassword("letmein"), TRUE)
  \/ \E u \in LoginNames, p \in LoginPasswords : LoginCall(u, p)
  \/ \E digestOk \in BOOLEAN : LoginHashed(digestOk)
  \/ \E t \in Tokens, w \in BOOLEAN : LoginVerified(t, w)
  \/ logout
  \/ isAuthenticated
  \/ getSessionToken
  \/ getUserId
  \/ Tick

SpecAuth == Init /\ [][NextAuth]_vars

\* The freight form submitted with any contents on an engine at rest, by a
\* visitor who may be logged in as the default account or not; the runtime
\* loads and the digest resolves, localStorage may refuse the record.
NextForm ==
  \/ /\ impPc = "idle" /\ (initPc = "idle" => ~initialized)
     /\ Initialize({TRUE}, {TRUE})
  \/ LoginCall("admin", "admin123")
  \/ LoginHashed(TRUE)
  \/ LoginVerified("5f2a", TRUE)
  \/ logout
  \/ \E form \in Forms, w \in BOOLEAN :
       AtRest /\ authPc = "idle" /\ handleFormSubmit(form, w)

SpecForm == Init /\ [][NextForm]_vars

\* Two tabs on the same localStorage: each starts its engine up and, at
\* rest, saves and deletes freight records of one owner; the tabs take
\* turns at any moment.  The runtime loads and localStorage has room.
NextTabs ==
  \/ /\ impPc = "idle" /\ (initPc = "idle" => ~initialized)
     /\ Initialize({TRUE}, {TRUE})
  \/ \E o \in Origins :
       AtRest /\ saveFreightDetails([userId |-> 1, origin |-> o], TRUE)
  \/ \E id \in FreightIds : AtRest /\ deleteFreightDetails(id, 1, TRUE)
  \/ SwitchTab

SpecTabs == Init /\ [][NextTabs]_vars

\* Start-up alone, on a runtime that may fail to load, a digest that may
\* reject and a storage that may refuse a write; the page may be closed at
\* any moment and opened again; at rest the default account is verified.
NextFirstRun ==
  \/ /\ initPc = "idle" => ~initialized
     /\ Initialize(BOOLEAN, BOOLEAN)
  \/ Reload
  \/ AtRest /\ verifyUser("admin", hashPassword("admin123"))

SpecFirstRun == Init /\ [][NextFirstRun]_vars

\* Legacy databases: users, freight_details without its two later columns
\* and document_history, with the indexes on them, holding the default
\* account and one freight record or none.
LegacyDbs ==
  {LegacyDb,
   [LegacyDb EXCEPT !.freight = {}, !.seq["freight_details"] = 0]}

\* The engine after construction, with localStorage holding a legacy
\* database
InitLegacy ==
  /\ db = NullDb
  /\ initialized = FALSE
  /\ blob \in {Serialize(d) : d \in LegacyDbs}
  /\ initPc = "idle"
  /\ impPc = "idle"
  /\ impData = InvalidSnapshot
  /\ lastExport = InvalidSnapshot
  /\ lastOp = NoOp
  /\ ghost = [saved |-> {}, initFailed |-> FALSE, impBlob |-> NoBlob,
              impKept |-> TRUE, live |-> FALSE, loginToken |-> NoToken,
              loginAt |-> 0]
  /\ AuthInit
  /\ ui = NoSubmit
  /\ parked = NewEngine

\* Startup on a legacy database and the calls a page makes at rest on the
\* migrated database, for one owner; the page may be opened again; the
\* runtime loads and localStorage has room.
NextLegacy ==
  \/ impPc = "idle" /\ ~initialized /\ InitializeCall
  \/ InitializeLoaded(TRUE, TRUE)
  \/ InitializeMigrated
  \/ AtRest /\ Reload
  \/ AtRest /\ Room
       /\ saveFreightDetails([userId |-> 1, origin |-> "Delhi"], TRUE)
  \/ AtRest /\ getUserFreightRecords(1)
  \/ AtRest /\ Room /\ recordDocumentGeneration(1, "bilty", TRUE)
  \/ AtRest /\ Room
       /\ saveCompanyProfile(
            [userId |-> 1, name |-> "Acme", isDefault |-> TRUE], TRUE)
  \/ AtRest /\ getUserCompanyProfiles(1)
  \/ AtRest /\ Room
       /\ saveCustomField(
            [userId |-> 1, fieldName |-> "vehicle_no", isActive |-> TRUE],
            TRUE)
  \/ AtRest /\ getUserCustomFields(1)
  \/ AtRest /\ exportBackup

SpecLegacy == InitLegacy /\ [][NextLegacy]_vars

\* ================================================================ claims
\* C1: no read returns a freight record, or the history of one, to a caller
\* acting for another owner: every record getUserFreightRecords(B) or
\* getFreightDetails(id) returns to a caller acting for B is owned by B, and
\* every history row getDocumentHistory(freightId) returns to that caller
\* belongs to a freight record owned by B.
C1_ReadsStayWithinOwner ==
  /\ lastOp.op \in {"getUserFreightRecords", "getFreightDetails"} =>
       \A i \in 1 .. Len(lastOp.rows) : lastOp.rows[i].userId = lastOp.user
  /\ lastOp.op = "getDocumentHistory" =>
       \A i \in 1 .. Len(lastOp.rows) : \A f \in db.freight :
         f.id = lastOp.rows[i].freightId => f.user_id = lastOp.user

\* C2: every record getUserFreightRecords(B) returns has userId = B, and
\* the list holds every record saved under B and not deleted since.
C2_ListIsOwnersRecords ==
  (lastOp.op = "getUserFreightRecords" /\ lastOp.ready) =>
    /\ \A i \in 1 .. Len(lastOp.rows) : lastOp.rows[i].userId = lastOp.user
    /\ \A s \in ghost.saved : s.owner = lastOp.user =>
         \E i \in 1 .. Len(lastOp.rows) : lastOp.rows[i].id = s.id

\* B's list was read while A and B both hold a saved record
C2_Witness ==
  /\ lastOp.op = "getUserFreightRecords" /\ lastOp.ready
  /\ Len(lastOp.rows) >= 1
  /\ \E s \in ghost.saved : s.owner = lastOp.user
  /\ \E s \in ghost.saved : s.owner # lastOp.user
  /\ \E f \in db.freight : f.user_id # lastOp.user

\* C3: deleteFreightDetails(id, B) on a record owned by another user leaves
\* the database as it was, freight record and document history alike.
C3_ForeignDeleteRemovesNothing ==
  [][\A id \in FreightIds, u \in UserIds :
       (/\ deleteFreightDetails(id, u, TRUE)
        /\ initialized
        /\ \E f \in db.freight : f.id = id /\ f.user_id # u)
       => db' = db]_vars

\* C4: updateFreightDetails(id, data) leaves every record alone that is not
\* record id owned by data.userId, and no update changes the ids and owners
\* of the stored records.
C4_UpdateOnlyByOwner ==
  [][\A id \in FreightIds, f \in FreightInputs :
       (lastOp'.op = "updateFreightDetails"
          /\ updateFreightDetails(id, f, TRUE)) =>
         /\ \A r \in db.freight :
              (r.id # id \/ r.user_id # f.userId) => r \in db'.freight
         /\ {<<r.id, r.user_id>> : r \in db'.freight}
              = {<<r.id, r.user_id>> : r \in db.freight}]_vars

\* an update carrying B's user id ran on a record owned by A
C4_Witness ==
  /\ lastOp.op = "updateFreightDetails" /\ lastOp.ok
  /\ \E r \in db.freight : r.id = lastOp.id /\ r.user_id # lastOp.user

\* the operations that change rows
Mutators ==
  {"saveUser", "saveFreightDetails", "updateFreightDetails",
   "deleteFreightDetails", "recordDocumentGeneration", "saveCompanyProfile",
   "updateCompanyProfile", "deleteCompanyProfile", "saveCustomField",
   "deleteCustomField", "importBackup"}

\* C5: when a mutating operation reports success the blob in localStorage is
\* the serialization of the database as that operation left it, and as long
\* as no call on the engine has reported a failure the blob and the
\* in-memory database of an initialized engine at rest hold the same rows.
C5_SuccessMeansPersisted ==
  /\ (lastOp.done /\ lastOp.op \in Mutators /\ lastOp.ok)
       => blob = Serialize(db)
  /\ (lastOp.done /\ lastOp.allOk /\ initialized /\ AtRest)
       => /\ blob.present /\ ~blob.corrupt
          /\ \A t \in {"users", "freight", "history", "profiles", "fields"} :
               Deserialize(blob)[t] = db[t]

\* a mutating operation succeeded on an engine whose blob had fallen behind
\* through a refused write, and it holds rows
C5_Witness ==
  /\ lastOp.done /\ lastOp.op \in Mutators /\ lastOp.ok /\ ~lastOp.allOk
  /\ db.freight # {} /\ db.history # {}
  /\ blob = Serialize(db)

\* what a step of a mutating operation whose write is refused must do:
\* report failure, leave the blob alone, keep the change d in memory
RefusedWrite(d) ==
  /\ lastOp'.done /\ ~lastOp'.ok
  /\ blob' = blob
  /\ db' = d

\* the ten synchronous mutating operations on a refused write
C6_Synchronous ==
  /\ \A f \in FreightInputs :
       (initialized /\ lastOp'.op = "saveFreightDetails" /\ saveFreightDetails(f, FALSE))
         => RefusedWrite(InsertFreight(db, f))
  /\ \A id \in FreightIds, f \in FreightInputs :
       (initialized /\ lastOp'.op = "updateFreightDetails" /\ updateFreightDetails(id, f, FALSE))
         => RefusedWrite(UpdateFreight(db, id, f))
  /\ \A id \in FreightIds, u \in UserIds :
       (initialized /\ lastOp'.op = "deleteFreightDetails" /\ deleteFreightDetails(id, u, FALSE))
         => RefusedWrite(DeleteFreight(DeleteHistoryOf(db, id), id, u))
  /\ \A id \in FreightIds, t \in DocTypes :
       (initialized /\ lastOp'.op = "recordDocumentGeneration" /\ recordDocumentGeneration(id, t, FALSE))
         => RefusedWrite(InsertHistory(db, id, t))
  /\ \A n \in Usernames, h \in Hashes :
       (initialized /\ lastOp'.op = "saveUser" /\ saveUser(n, h, FALSE) /\ ~UsernameTaken(db, n))
         => (RefusedWrite(InsertUser(db, n, h)) /\ lastOp'.threw)
  /\ \A q \in ProfileInputs :
       (initialized /\ lastOp'.op = "saveCompanyProfile" /\ saveCompanyProfile(q, FALSE))
         => /\ RefusedWrite(db')
            /\ \E r \in db'.profiles :
                 r.id = db.seq["company_profiles"] + 1 /\ r.name = q.name
  /\ \A id \in ProfileIds, q \in ProfileInputs :
       (initialized /\ lastOp'.op = "updateCompanyProfile" /\ updateCompanyProfile(id, q, FALSE))
         => /\ RefusedWrite(db')
            /\ \A r \in db.profiles : (r.id = id /\ r.user_id = q.userId) =>
                 \E r2 \in db'.profiles :
                   r2.id = id /\ r2.is_default = IF q.isDefault THEN 1 ELSE 0
  /\ \A id \in ProfileIds, u \in UserIds :
       (initialized /\ lastOp'.op = "deleteCompanyProfile" /\ deleteCompanyProfile(id, u, FALSE))
         => RefusedWrite(DeleteProfile(db, id, u))
  /\ \A c \in FieldInputs :
       (initialized /\ lastOp'.op = "saveCustomField" /\ saveCustomField(c, FALSE))
         => RefusedWrite(InsertField(db, c))
  /\ \A id \in FieldIds, u \in UserIds :
       (initialized /\ lastOp'.op = "deleteCustomField" /\ deleteCustomField(id, u, FALSE))
         => RefusedWrite(DeactivateField(db, id, u))

CrudOps ==
  {"saveUser", "verifyUser", "saveFreightDetails", "getFreightDetails",
   "getUserFreightRecords", "updateFreightDetails", "deleteFreightDetails",
   "recordDocumentGeneration", "getDocumentHistory", "saveCompanyProfile",
   "updateCompanyProfile", "deleteCompanyProfile", "getUserCompanyProfiles",
   "getDefaultCompanyProfile", "saveCustomField", "deleteCustomField",
   "getUserCustomFields"}

\* the outcome of the call that just returned is the uninitialized one:
\* mutators fail with 'Database not initialized' (saveUser rejects with
\* it), the single-row reads return null, the lists [], verifyUser
\* { valid: false, userId: null }
UninitializedOutcome(r) ==
  /\ ~r.ready
  /\ r.op \in Mutators => (~r.ok /\ r.err = ErrUninit)
  /\ r.op = "saveUser" => r.threw
  /\ r.op \in {"getFreightDetails", "getDefaultCompanyProfile"} => r.isNull
  /\ r.op \in {"getUserFreightRecords", "getDocumentHistory",
                "getUserCompanyProfiles", "getUserCustomFields"}
       => (r.rows = <<>> /\ ~r.isNull)
  /\ r.op = "verifyUser" => (~r.ok /\ r.id = NullId)

\* the step is a CRUD call that returns
CrudReturn == lastOp'.done /\ lastOp'.op \in CrudOps

\* C7: between the call of initialize() and its resolution every other
\* storage operation issued on the engine gets the uninitialized outcome
\* and leaves the database alone; none runs on a database whose schema
\* creation, migration or seeding is not complete yet.
C7_InFlightCallsRejected ==
  [][(initPc # "idle" /\ CrudReturn)
       => (UninitializedOutcome(lastOp') /\ db' = db /\ blob' = blob)]_vars

\* C8: a CRUD call made while the engine is not initialized gets the
\* uninitialized outcome and leaves the database handle, the initialized
\* flag and the persisted blob as they were.
C8_UninitializedShortCircuits ==
  [][(~initialized /\ CrudReturn)
       => /\ UninitializedOutcome(lastOp')
          /\ db' = db /\ blob' = blob /\ initialized' = initialized]_vars

\* a mutating call was rejected after initialize() had failed on a stored
\* database: the handle and the blob are still there, uninitialized
C8_Witness ==
  /\ lastOp.done /\ lastOp.op = "saveFreightDetails"
  /\ ~lastOp.ready /\ lastOp.err = ErrUninit
  /\ ghost.initFailed /\ ~initialized
  /\ ~db.isNull /\ blob.present /\ ~blob.corrupt

\* C9: when initialize() resolves with success false the engine is
\* uninitialized, and from then until an initialize() resolves with success
\* every CRUD call gets the uninitialized outcome.
C9_FailedInitStaysUninitialized ==
  [][/\ (lastOp'.done /\ lastOp'.op = "initialize" /\ ~lastOp'.ok
         /\ initPc # "idle")
          => ~initialized'
     /\ (ghost.initFailed /\ CrudReturn)
          => (UninitializedOutcome(lastOp') /\ db' = db)]_vars

\* what a first-run initialize() leaves: the five tables, their indexes and
\* columns, the one user admin / hash('admin123'), nothing else, and an
\* engine on which verifyUser('admin', hash('admin123')) is valid
FreshlySeeded(d, init) ==
  /\ d.tables = AllTables /\ d.indexes = AllIndexes
  /\ d.freightCols = NewFreightCols
  /\ \E id \in 1 .. MaxUsers :
       d.users = {[id |-> id, username |-> "admin",
                   password_hash |-> hashPassword("admin123")]}
  /\ d.freight = {} /\ d.history = {} /\ d.profiles = {} /\ d.fields = {}
  /\ LET v == VerifyUserOutcome(d, init, "admin", hashPassword("admin123"))
     IN v.ok /\ v.id # NullId

\* C10: an initialize() that finds no persisted blob, with no other call
\* issued while it runs, creates the full schema and seeds the one user
\* admin: when the runtime, the digest and the storage work it resolves
\* with success, and whenever it resolves with success the database holds
\* exactly that user, every other table is empty and
\* verifyUser('admin', hashPassword('admin123')) is valid.
C10_FirstRunSeedsAdmin ==
  [][/\ (initPc = "awaitSql" /\ ~blob.present
         /\ InitializeLoaded(TRUE, TRUE))
          => (initPc' = "awaitCreateTables" /\ db'.tables = AllTables
              /\ db'.users = {} /\ blob' = Serialize(db'))
     /\ (initPc = "awaitDigest" /\ InitializeDigested(TRUE, TRUE))
          => (lastOp'.done /\ lastOp'.ok)
     /\ (initPc = "awaitDigest" /\ lastOp'.done /\ lastOp'.ok
         /\ lastOp'.op = "initialize")
          => (FreshlySeeded(db', initialized') /\ blob' = Serialize(db'))]_vars

\* initialize() resolved with success on a storage that clearAllData had
\* emptied after an earlier call had failed
C10_Witness ==
  /\ lastOp = [InitSucceeded EXCEPT !.allOk = FALSE]
  /\ initialized /\ db.seq["users"] = 1 /\ db.freight = {}
  /\ db.freightCols = NewFreightCols
  /\ blob = Serialize(db)

\* the two databases hold the same rows, with the same values, in each of
\* the five tables, and the same AUTOINCREMENT counters
SameRows(a, b) ==
  /\ a.users = b.users /\ a.freight = b.freight /\ a.history = b.history
  /\ a.profiles = b.profiles /\ a.fields = b.fields
  /\ a.seq = b.seq

\* the step belongs to initialize()
InitializeStep == lastOp'.op = "initialize" /\ initPc' # initPc

\* C11: an initialize() that finds a stored blob, with no other call issued
\* while it runs, loads it and migrates the schema only: the rows of the
\* blob are the rows of the database afterwards and of the blob it
\* persists, no user is inserted, and it never goes on to seed the default
\* account, which only an initialize() that found no blob does.
C11_ExistingBlobIsNotSeeded ==
  [][/\ (InitializeStep /\ initPc = "awaitSql" /\ blob.present
         /\ ~blob.corrupt)
          => /\ SameRows(db', Deserialize(blob))
             /\ blob'.present /\ ~blob'.corrupt
             /\ SameRows(Deserialize(blob'), Deserialize(blob))
             /\ initPc' \in {"awaitMigrations", "awaitMigrationsRejected"}
     /\ (InitializeStep /\ initPc = "awaitMigrations")
          => (db' = db /\ blob' = blob /\ initPc' = "idle"
              /\ lastOp'.done /\ lastOp'.ok)
     /\ (InitializeStep /\ initPc = "awaitSql" /\ initPc' = "awaitCreateTables")
          => ~blob.present]_vars

\* initialize() resolved with success on the database of the earlier
\* release: its user and freight record are there, the schema is migrated
C11_Witness ==
  /\ lastOp.done /\ lastOp.op = "initialize" /\ lastOp.ok
  /\ db.users = LegacyDb.users /\ db.freight = LegacyDb.freight
  /\ db.tables = AllTables /\ db.freightCols = NewFreightCols
  /\ blob = Serialize(db)

\* C12: saveUser with a username that is taken rejects with 'Username
\* already exists', leaves the database and the persisted blob as they
\* were, and verifyUser with the hash of the user who holds the name is
\* valid afterwards and gives that user's id.
C12_DuplicateUsernameRejected ==
  [][\A n \in Usernames, h \in Hashes, w \in BOOLEAN :
       (/\ lastOp'.op = "saveUser" /\ initialized /\ Usable(db, "users")
        /\ \E u \in db.users : u.username = n
        /\ saveUser(n, h, w))
       => /\ lastOp'.done /\ lastOp'.threw /\ ~lastOp'.ok
          /\ lastOp'.err = ErrDuplicate
          /\ db' = db /\ blob' = blob
          /\ \A u \in db.users : u.username = n =>
               LET v == VerifyUserOutcome(db', initialized', n,
                                          u.password_hash)
               IN v.ok /\ v.id = u.id]_vars

\* saveUser('admin', another hash) was rejected as a duplicate: admin still
\* has the seeded hash and the blob is the database
C12_Witness ==
  /\ lastOp.done /\ lastOp.op = "saveUser" /\ lastOp.err = ErrDuplicate
  /\ \E u \in db.users :
       u.username = "admin" /\ u.password_hash = hashPassword("admin123")
  /\ Cardinality(db.users) = 1
  /\ blob = Serialize(db)

\* the profiles of user u that are the default
DefaultsOf(d, u) == {q \in d.profiles : q.user_id = u /\ q.is_default = 1}

\* C13: when saveCompanyProfile or updateCompanyProfile is called with
\* isDefault = true for owner U and reports success, exactly one company
\* profile of U is the default afterwards.
C13_DefaultIsUnique ==
  [][\A q \in ProfileInputs :
       /\ (/\ lastOp'.op = "saveCompanyProfile" /\ q.isDefault
           /\ saveCompanyProfile(q, TRUE) /\ lastOp'.ok)
            => Cardinality(DefaultsOf(db', q.userId)) = 1
       /\ \A id \in ProfileIds :
            (/\ lastOp'.op = "updateCompanyProfile" /\ q.isDefault
             /\ updateCompanyProfile(id, q, TRUE) /\ lastOp'.ok)
            => Cardinality(DefaultsOf(db', q.userId)) = 1]_vars

\* C14: in every reachable state each user has at most one company profile
\* that is the default.
C14_AtMostOneDefault ==
  \A u \in UserIds : Cardinality(DefaultsOf(db, u)) <= 1

EqualInEveryField(input, object) ==
  \A k \in DOMAIN input :
    IF k \in DOMAIN object THEN object[k] = input[k]
    ELSE k \in {"companyProfileId", "customFields"}
         /\ (k = "companyProfileId" => input[k] = NullId)
         /\ (k = "customFields" => input[k] = NullText)

\* C16: for every freight record input, saveFreightDetails that reports
\* success followed by getFreightDetails(returned id) gives a record equal
\* to the input in every field of the data model, companyProfileId and
\* customFields included.
C16_SaveThenGetRoundTrip ==
  [][\A f \in FullFreightInputs :
       (/\ lastOp'.op = "saveFreightDetails" /\ initialized
        /\ saveFreightDetails(f, TRUE) /\ lastOp'.ok)
       => LET got == GetFreightOutcome(db', initialized', lastOp'.id,
                                       f.userId)
          IN /\ ~got.isNull /\ Len(got.rows) = 1
             /\ got.rows[1].id = lastOp'.id
             /\ EqualInEveryField(f, got.rows[1])]_vars

\* the rows of the five tables, as a backup holds them
TableRows(d) ==
  [users |-> d.users, freight |-> d.freight, history |-> d.history,
   profiles |-> d.profiles, fields |-> d.fields]

SnapshotRows(data) ==
  [users |-> data.users, freight |-> data.freight, history |-> data.history,
   profiles |-> data.profiles, fields |-> data.fields]

\* C17: exportBackup followed by importBackup of the exported snapshot
\* reproduces the same rows, ids and field values included, in each of the
\* five tables: a successful export returns the rows of the five tables,
\* and an import given an exported snapshot reports success and leaves
\* exactly the snapshot's rows in the database and in the persisted blob.
C17_ExportImportRoundTrip ==
  [][/\ (lastOp'.op = "exportBackup" /\ initialized /\ exportBackup)
          => /\ lastOp'.ok /\ lastExport'.valid
             /\ SnapshotRows(lastExport') = TableRows(db)
     /\ (lastOp'.op = "importBackup" /\ impPc = "awaitCreateTables"
          /\ ImportFinish(TRUE))
          => /\ lastOp'.done /\ lastOp'.ok /\ initialized'
             /\ TableRows(db') = SnapshotRows(lastExport)
             /\ blob' = Serialize(db')]_vars

\* a restore of an exported backup that holds users, a freight record and
\* its document history has returned
C17_Witness ==
  /\ lastOp.op = "importBackup" /\ lastOp.done /\ lastOp.ok
  /\ TableRows(db) = SnapshotRows(lastExport)
  /\ db.users # {} /\ db.freight # {} /\ db.history # {}

\* every row of the snapshot is among the rows r, table by table
AllPresent(data, r) ==
  \A t \in DOMAIN r : SnapshotRows(data)[t] \subseteq r[t]

\* no row of the snapshot is among the rows r
NonePresent(data, r) ==
  \A t \in DOMAIN r : SnapshotRows(data)[t] \cap r[t] = {}

\* the rows of the persisted blob (none when nothing readable is stored)
BlobRows(b) ==
  IF b.present /\ ~b.corrupt THEN TableRows(Deserialize(b))
  ELSE TableRows(NullDb)

\* C18: importBackup is all-or-nothing: when it reports success every row
\* of the snapshot is in the database and in the persisted blob, and when
\* it reports failure none of the snapshot's rows is present, neither in
\* the in-memory database nor in the persisted blob.
C18_ImportAllOrNothing ==
  [][(lastOp'.op = "importBackup" /\ lastOp'.done /\ impPc # "idle")
       => IF lastOp'.ok
            THEN /\ AllPresent(impData, TableRows(db'))
                 /\ AllPresent(impData, BlobRows(blob'))
          ELSE /\ NonePresent(impData, TableRows(db'))
               /\ NonePresent(impData, BlobRows(blob'))]_vars

\* tables, columns and indexes of a database
Schema(d) ==
  [tables |-> d.tables, freightCols |-> d.freightCols, indexes |-> d.indexes]

\* C19: running runMigrations twice in a row on the same database (the
\* first run a call of its own or the one initialize() makes at startup):
\* the second run leaves the tables, columns and indexes the first run
\* left, changes nothing (the rows and the persisted blob stay too) and
\* raises no error where the first run raised none.
C19_MigrationsIdempotent ==
  [][(/\ lastOp'.op = "runMigrations"
      /\ lastOp.op \in {"runMigrations", "initialize"} /\ lastOp.done
      /\ RunMigrations(TRUE))
       => /\ Schema(db') = Schema(db)
          /\ db' = db
          /\ blob' = blob
          /\ lastOp.ok => (lastOp'.ok /\ ~lastOp'.threw)]_vars

\* runMigrations has run again, and returned, on a stored database that
\* initialize() had migrated at startup
C19_Witness ==
  /\ lastOp.op = "runMigrations" /\ lastOp.ok /\ initialized
  /\ blob = Serialize(db)
  /\ Schema(db) = Schema(createTables(EmptyDb))
  /\ db.freight # {}

\* a migration step threw in the initialize() that is in flight, or in the
\* one that returned last
MigrationThrew ==
  \/ initPc = "awaitMigrationsRejected"
  \/ initPc = "idle" /\ ghost.initFailed /\ ~initialized

\* C20: if a migration step throws during initialize() on an existing
\* blob, initialize() returns failure, the engine is left uninitialized and
\* the persisted blob is the one read at startup: the partly migrated
\* schema is not persisted by the migration, and no later call uses or
\* persists it.
C20_FailedMigrationLeavesNothing ==
  [][/\ (InitializeStep /\ initPc = "awaitSql" /\ blob.present
         /\ runMigrations(Deserialize(blob)).threw)
          => (blob' = blob /\ initPc' = "awaitMigrationsRejected")
     /\ (InitializeStep /\ initPc = "awaitMigrationsRejected")
          => /\ lastOp'.done /\ ~lastOp'.ok /\ lastOp'.err = ErrInit
             /\ ~initialized' /\ blob' = blob
     /\ (MigrationThrew /\ CrudReturn)
          => /\ UninitializedOutcome(lastOp')
             /\ db' = db /\ blob' = blob]_vars

\* C21: no public storage operation throws or rejects, whatever the engine
\* state and input, except saveUser on a duplicate username and
\* importBackup on an invalid snapshot; every other failure, a call made
\* while uninitialized included, is returned as a result.
C21_OnlyTwoCasesThrow ==
  [][(lastOp'.done /\ lastOp'.threw)
       => \/ lastOp'.op = "saveUser" /\ lastOp'.err = ErrDuplicate
          \/ lastOp'.op = "importBackup" /\ lastOp'.err = ErrFormat]_vars

\* C22: in every reachable state every document_history row refers to an
\* existing freight record.
C22_HistoryRefersToFreight ==
  \A h \in db.history : \E f \in db.freight : f.id = h.freight_id

\* the ids getUserCustomFields(u) returns on engine state (d, init)
ListedFieldIds(d, init, u) ==
  LET rows == GetUserCustomFieldsOutcome(d, init, u).rows
  IN {rows[i].id : i \in 1 .. Len(rows)}

\* C23: deleteCustomField(id, owner) never removes the row: the definition
\* is still stored, and exported, with is_active = 0 and everything else as
\* it was, getUserCustomFields(owner) no longer returns it, and a call
\* whose user id is not the definition's owner changes nothing.
C23_CustomFieldSoftDelete ==
  [][\A id \in FieldIds, u \in UserIds :
       (/\ lastOp'.op = "deleteCustomField" /\ initialized
        /\ Usable(db, "custom_field_definitions")
        /\ deleteCustomField(id, u, TRUE))
       => /\ lastOp'.ok
          /\ \A f \in db.fields :
               IF f.id = id /\ f.user_id = u
                 THEN /\ [f EXCEPT !.is_active = 0] \in db'.fields
                      /\ [f EXCEPT !.is_active = 0] \in Snapshot(db').fields
                      /\ id \notin ListedFieldIds(db', initialized', u)
               ELSE f \in db'.fields
          /\ Cardinality(db'.fields) = Cardinality(db.fields)
          /\ (~\E f \in db.fields : f.id = id /\ f.user_id = u)
               => db' = db]_vars

\* the owner deleted a definition that the last export listed as active:
\* it is stored inactive
C23_Witness ==
  /\ lastOp.op = "deleteCustomField" /\ lastOp.ok
  /\ \E f \in db.fields :
       /\ f.is_active = 0
       /\ [f EXCEPT !.is_active = 1] \in lastExport.fields

\* a step of one of the three session checks
SessionCheck ==
  \/ authOp'.op = "isAuthenticated" /\ isAuthenticated
  \/ authOp'.op = "getSessionToken" /\ getSessionToken
  \/ authOp'.op = "getUserId" /\ getUserId

\* C24: after a successful login, isAuthenticated() returns true and
\* getSessionToken() returns the token issued by that login at every later
\* check until logout() is called or the session expires; after logout(),
\* isAuthenticated() is false and getSessionToken() and getUserId() are
\* null at every check until the next successful login.
C24_SessionFollowsLoginAndLogout ==
  [][/\ (SessionCheck /\ ghost.live
         /\ now < ghost.loginAt + SESSION_DURATION)
          => /\ authOp'.value
             /\ authOp'.op = "getSessionToken"
                  => authOp'.token = ghost.loginToken
             /\ authOp'.op = "getUserId" => authOp'.id # NullId
             /\ session' = session
     /\ (SessionCheck /\ ~ghost.live)
          => /\ ~authOp'.value
             /\ authOp'.token = NoToken /\ authOp'.id = NullId]_vars

\* getSessionToken() returned the token of a login made at an earlier time
C24_Witness ==
  /\ authOp.op = "getSessionToken" /\ authOp.value
  /\ authOp.token = ghost.loginToken /\ ghost.live
  /\ now > ghost.loginAt /\ ghost.loginAt > 0

\* login's refusal: the one message, no token
Refused(r) ==
  /\ r.op = "login" /\ r.done /\ ~r.ok
  /\ r.err = ErrInvalid /\ r.token = NoToken

\* the users table holds the username with the hash of the password
Registered(username, password) ==
  /\ initialized /\ Usable(db, "users")
  /\ \E u \in db.users :
       u.username = username /\ u.password_hash = hashPassword(password)

\* C25: a login attempt with an unknown username, a wrong password, an
\* empty username or an empty password returns {success: false, error:
\* 'Invalid username or password'} with no session token, the same message
\* in all four cases, and creates no session: what is stored under the
\* session key stays as it was.
C25_InvalidLoginRefused ==
  [][/\ \A u \in LoginNames, p \in LoginPasswords :
          (authOp'.op = "login" /\ (u = "" \/ p = "") /\ LoginCall(u, p))
            => (Refused(authOp') /\ session' = session)
     /\ (authPc = "awaitHash" /\ LoginHashed(TRUE)
         /\ ~Registered(authArgs.username, authArgs.password))
          => (~authArgs'.valid /\ authPc' = "awaitVerify"
              /\ session' = session)
     /\ \A t \in Tokens, w \in BOOLEAN :
          (authPc = "awaitVerify" /\ ~authArgs.valid /\ LoginVerified(t, w))
            => (Refused(authOp') /\ session' = session)]_vars

\* a login was refused on an initialized engine that holds users, and no
\* session is stored
C25_Witness ==
  /\ Refused(authOp) /\ initialized /\ db.users # {}
  /\ ~session.present /\ ~ghost.live

RequiredFieldsValid(form) ==
  /\ Trim(form.origin) # ""
  /\ Trim(form.destination) # ""
  /\ Trim(form.goodsDescription) # ""
  /\ ~parseFloat(form.weight).nan /\ parseFloat(form.weight).n > 0
  /\ ~parseFloat(form.amount).nan /\ parseFloat(form.amount).n > 0

\* C27: a submission of the freight form whose required fields are valid
\* and whose discount and taxes inputs are empty passes validateFreightForm
\* on the data the form collects, and when it is saved the record gets
\* discount = 0 and taxes = 0.
C27_EmptyDiscountAndTaxesAccepted ==
  [][(/\ ui' # ui
      /\ RequiredFieldsValid(ui'.form)
      /\ ui'.form.discount = "" /\ ui'.form.taxes = "")
       => /\ ui'.valid
          /\ ui'.outcome = "saved"
               => ui'.discount = Num(0) /\ ui'.taxes = Num(0)]_vars
\* C28: two engine instances on the same persisted blob are not
\* coordinated.  Every step that stores a blob stores the full snapshot of
\* the instance that takes the step, whatever the other instance stored
\* before: a freight row the other instance holds and the writer does not
\* is not in the stored blob (last writer wins).
C28_LastWriterWins ==
  [][(blob' # blob /\ blob'.present)
       => /\ blob' = Serialize(db')
          /\ \A r \in parked.db.freight :
               r \notin db'.freight => r \notin Deserialize(blob').freight]_vars

\* both instances have saved a freight record with success, and a record
\* the other instance saved is not in the blob the running one wrote
C28_Witness ==
  /\ lastOp.op = "saveFreightDetails" /\ lastOp.ok
  /\ parked.lastOp.op = "saveFreightDetails" /\ parked.lastOp.ok
  /\ blob = Serialize(db)
  /\ \E r \in parked.db.freight : r \notin Deserialize(blob).freight
\* C29: whenever a first-time initialize() was interrupted (the page was
\* closed, or the digest of the password failed), no blob it stored holds
\* the schema without the user admin, so after every initialize() that
\* resolved with success the users table holds admin and
\* verifyUser('admin', hashPassword('admin123')) is valid.
C29_AdminSurvivesInterruptedFirstRun ==
  /\ (blob.present /\ ~blob.corrupt)
       => \E u \in Deserialize(blob).users : u.username = "admin"
  /\ (lastOp.op = "initialize" /\ lastOp.done /\ lastOp.ok /\ initialized
      /\ initPc = "idle")
       => /\ \E u \in db.users : u.username = "admin"
          /\ VerifyUserOutcome(db, initialized, "admin",
                               hashPassword("admin123")).ok
====
